---- MODULE Spec2Model ----
(***************************************************************************)
(* Keogram plotting scripts (anniepflaum/keogram-plots): the image/time    *)
(* alignment, stitching, stacking and RGB compositing steps, each script   *)
(* as a state machine over the locals of its main routine.  One run        *)
(* executes one script; `script` names it and `pc` is its position.        *)
(***************************************************************************)
EXTENDS Integers, Sequences, FiniteSets, TLC

Min2(a, b) == IF a <= b THEN a ELSE b
Max2(a, b) == IF a >= b THEN a ELSE b
SetMin(S) == CHOOSE m \in S : \A n \in S : m <= n
SetMax(S) == CHOOSE m \in S : \A n \in S : m >= n

\* ---------------------------------------------------------------------------
\* IEEE-754 binary64 arithmetic on non-negative values, as CPython's float
\* performs it in int(W * (h / 24.0)) and int(w * (hmin / h)).
\* A double is a record [frac, exp]: value = (1 + F / 2^52) * 2^exp where F is
\* the 52-bit fraction held as four 13-bit limbs, most significant first.
\* FZero is 0.0.  Limbs keep every intermediate product below 2^31.
\* ---------------------------------------------------------------------------
Limb == 8192
LimbBits == 13

FZero == [frac |-> <<0, 0, 0, 0>>, exp |-> -9999]

RECURSIVE Pow2(_)
Pow2(n) == IF n <= 0 THEN 1 ELSE 2 * Pow2(n - 1)

\* smallest k with a * 2^k >= b   (a >= 1)
RECURSIVE ShiftUp(_, _)
ShiftUp(a, b) == IF a >= b THEN 0 ELSE 1 + ShiftUp(2 * a, b)

\* largest k with b * 2^k <= a    (a >= b >= 1)
RECURSIVE ShiftDown(_, _)
ShiftDown(a, b) == IF 2 * b > a THEN 0 ELSE 1 + ShiftDown(a, 2 * b)

\* floor(log2(n)) for n >= 1
RECURSIVE Log2(_)
Log2(n) == IF n <= 1 THEN 0 ELSE 1 + Log2(n \div 2)

\* round-half-to-even: the fraction is advanced by one unit in the last place
\* when the guard bit is set and either something non-zero lies below it or
\* the last kept bit is odd; a carry out of the fraction bumps the exponent
RoundNearestEven(frac, exp, guard, sticky) ==
    IF guard = 1 /\ (sticky \/ frac[4] % 2 = 1)
    THEN LET n4 == frac[4] + 1
             n3 == frac[3] + n4 \div Limb
             n2 == frac[2] + n3 \div Limb
             n1 == frac[1] + n2 \div Limb
         IN  [frac |-> <<n1 % Limb, n2 % Limb, n3 % Limb, n4 % Limb>>,
              exp  |-> exp + n1 \div Limb]
    ELSE [frac |-> frac, exp |-> exp]

\* a / b in binary64 for integers a >= 0, b >= 1 (both exactly representable)
FDiv(a, b) ==
    IF a = 0 THEN FZero
    ELSE LET up == IF a >= b THEN 0 ELSE ShiftUp(a, b)
             dn == IF a >= b THEN ShiftDown(a, b) ELSE 0
             aa == a * Pow2(up)
             bb == b * Pow2(dn)
             r0 == aa - bb
             d1 == (r0 * Limb) \div bb
             r1 == (r0 * Limb) % bb
             d2 == (r1 * Limb) \div bb
             r2 == (r1 * Limb) % bb
             d3 == (r2 * Limb) \div bb
             r3 == (r2 * Limb) % bb
             d4 == (r3 * Limb) \div bb
             r4 == (r3 * Limb) % bb
             g  == IF 2 * r4 >= bb THEN 1 ELSE 0
         IN  RoundNearestEven(<<d1, d2, d3, d4>>, dn - up, g, 2 * r4 - g * bb # 0)

\* w * f in binary64 for an integer 0 <= w < 2^18
FMulInt(w, f) ==
    IF w = 0 \/ f = FZero THEN FZero
    ELSE LET t4  == w * f.frac[4]
             t3  == w * f.frac[3] + t4 \div Limb
             t2  == w * f.frac[2] + t3 \div Limb
             t1  == w * f.frac[1] + t2 \div Limb
             top == w + t1 \div Limb
             \* exact product = (top * 2^52 + o1..o4) * 2^(exp - 52)
             k   == Log2(top)
             \* five limbs, the first oversize; shift right by k bits
             p   == <<top, t1 % Limb, t2 % Limb, t3 % Limb, t4 % Limb>>
             whole == k >= LimbBits
             q   == IF whole
                    THEN <<0, p[1] \div Limb, p[1] % Limb, p[2], p[3], p[4]>>
                    ELSE <<0>> \o p
             lowq == IF whole THEN p[5] ELSE 0
             j   == IF whole THEN k - LimbBits ELSE k
             pj  == Pow2(j)
             s   == [i \in 2..6 |-> (q[i - 1] % pj) * (Limb \div pj) + q[i] \div pj]
             \* bits shifted out, most significant first: q[6] % pj, then lowq
             outHi == q[6] % pj
             guard == IF j > 0 THEN outHi \div (pj \div 2)
                      ELSE IF whole THEN lowq \div (Limb \div 2) ELSE 0
             sticky == IF j > 0 THEN (outHi % (pj \div 2) # 0 \/ lowq # 0)
                       ELSE IF whole THEN lowq % (Limb \div 2) # 0 ELSE FALSE
         IN  RoundNearestEven(<<s[3], s[4], s[5], s[6]>>, f.exp + k, guard, sticky)

\* int(f): truncation toward zero of a non-negative double below 2^31
FTrunc(f) ==
    IF f = FZero \/ f.exp < 0 THEN 0
    ELSE LET sh == 52 - f.exp
         IN  Pow2(f.exp) +
             (IF sh >= 39 THEN f.frac[1] \div Pow2(sh - 39)
              ELSE IF sh >= 26 THEN f.frac[1] * Pow2(39 - sh) + f.frac[2] \div Pow2(sh - 26)
              ELSE f.frac[1] * Pow2(39 - sh) + f.frac[2] * Pow2(26 - sh)
                   + f.frac[3] \div Pow2(sh - 13))


\* ---------------------------------------------------------------------------
\* Time axis.  Timestamps are integer ticks since midnight UTC of the
\* reference date; an hour value h = ticks / TicksPerHour.  Window edges
\* are whole hours, so (hour >= s) and (hour < e) on the floats the scripts
\* compute are decided exactly by the tick comparisons below.
\* ---------------------------------------------------------------------------
TicksPerSecond == 10
SecondsPerHour == 3600
HoursPerDay == 24
TicksPerHour == SecondsPerHour * TicksPerSecond

\* a value that is missing in the data file (masked / NaN)
NaN == -9999

\* the same test with the end edge included
InWindowClosed(t, lo_hour, hi_hour) ==
    t >= lo_hour * TicksPerHour /\ t <= hi_hour * TicksPerHour

\* (hour >= start_hour) & (hour < end_hour) for the stamp t
InWindow(t, lo_hour, hi_hour) ==
    t >= lo_hour * TicksPerHour /\ t < hi_hour * TicksPerHour

\* bounds of the enumerated inputs
MaxWidth == 216
MaxHrefHour == 25
MaxSamples == 2
NominalWidth == 48

\* sample values: below every default axis floor on the 10-second marks,
\* above every default ceiling between them, so that the two stamps of one
\* bucket differ in value
ValueAt(t) == IF t % (10 * TicksPerSecond) = 0 THEN -20 ELSE 140
EdgeHours == {8, 12}
\* stamps around a window edge: one bucket before, half a second before,
\* on the edge, half a second after
EdgeOffsets == {0 - 10 * TicksPerSecond, 0 - (TicksPerSecond \div 2), 0, TicksPerSecond \div 2}
SampleTicks == {h * TicksPerHour + d : h \in EdgeHours, d \in EdgeOffsets}
Samples ==
    UNION {{[t |-> tk, v |-> ValueAt(tk)], [t |-> tk, v |-> NaN]} : tk \in SampleTicks}

\* the time-ordered series a data file can hold, at most n samples
SeriesUpTo(n) ==
    {s \in UNION {[1..k -> Samples] : k \in 0..n} :
        \A i \in 1..(Len(s) - 1) : s[i].t < s[i + 1].t}

\* a series spanning the window 08:00-12:00, used where the file is not varied
NominalSeries ==
    << [t |-> 8 * TicksPerHour, v |-> -20], [t |-> 12 * TicksPerHour, v |-> 140] >>

RECURSIVE SumOver(_, _)
SumOver(f, S) ==
    IF S = {} THEN 0
    ELSE LET i == CHOOSE j \in S : TRUE IN f[i] + SumOver(f, S \ {i})

\* DataFrame(...).dropna(): rows with a missing value are removed
DropNa(series) == SelectSeq(series, LAMBDA r : r.v # NaN)

\* a bucket labelled by its right edge
BucketOfRight(t, width) == ((t \div width) + 1) * width

BucketOf(t, width) == (t \div width) * width

\* df.set_index('time').resample(<width>).mean(): left-closed, left-labelled
\* buckets aligned to midnight, one row per bucket from the first to the last
\* sample's bucket; a row is [sum, n] (mean = sum / n), n = 0 an empty bucket
\* whose mean is NaN.  An empty frame is the function with empty domain.
Resample(series, width) ==
    IF series = << >> THEN [b \in {} |-> [sum |-> 0, n |-> 0]]
    ELSE LET lo == BucketOf(series[1].t, width)
             hi == BucketOf(series[Len(series)].t, width)
             labels == {lo + k * width : k \in 0..((hi - lo) \div width)}
         IN  [b \in labels |->
                LET members == {i \in DOMAIN series : BucketOf(series[i].t, width) = b}
                IN  [sum |-> SumOver([i \in members |-> series[i].v], members),
                     n   |-> Cardinality(members)]]

\* frame[(frame['hour'] >= start_hour) & (frame['hour'] < end_hour)]
FilterFrame(frame, lo_hour, hi_hour) ==
    LET keep == {b \in DOMAIN frame : InWindow(b, lo_hour, hi_hour)}
    IN  [b \in keep |-> frame[b]]

\* A plotted value is a mean sum / n kept as the row [sum, n], n > 0
Rat(v) == [sum |-> v, n |-> 1]
RatLE(a, b) == a.sum * b.n <= b.sum * a.n
RatMin(S) == CHOOSE r \in S : \A q \in S : RatLE(r, q)
RatMax(S) == CHOOSE r \in S : \A q \in S : RatLE(q, r)

\* the points of a curve; a missing value is not drawn
FramePoints(frame) == {frame[b] : b \in {c \in DOMAIN frame : frame[c].n > 0}}
SeriesPoints(series) ==
    {Rat(series[i].v) : i \in {j \in DOMAIN series : series[j].v # NaN}}

HpFloor == 0
HpCeil == 130
BzFloor == 0 - 15
BzCeil == 15

\* set_ylim(min(lo, lowest), max(hi, highest)) over the values `of`; the
\* nan-skipping minimum of no value is nan, and min(lo, nan) is lo
Limits(lo, hi, of) ==
    [lo |-> RatMin(of \cup {Rat(lo)}), hi |-> RatMax(of \cup {Rat(hi)})]
\* no set_ylim call: the axis is scaled to the curve itself
AutoLimits(pts) == IF pts = {} THEN [lo |-> Rat(0), hi |-> Rat(1)]
                   ELSE [lo |-> RatMin(pts), hi |-> RatMax(pts)]

\* ---------------------------------------------------------------------------
\* State.
\* ---------------------------------------------------------------------------
VARIABLES
    script,       \* the script this run executes
    pc,           \* its position
    log,          \* diagnostics printed so far, in order
    saved,        \* output files written by the run, in order
    \* the environment the overlay scripts read
    mode,         \* overlay.py: "full" or "partial"
    keo_paths,    \* keogram files the glob yields: [W, win]; win = the two
                  \* digit strings of the name, << >> when the name has none
    page,         \* AMISR day page: [ok, hours]; hours = the NN of its utNN links
    goes_file,    \* [found, ok, fault, samples]
    dscovr_file,  \* [found, ok, fault, samples] (the ACE/DSCOVR .nc.gz)
    \* locals of overlay.py process_date
    W, first_h, last_h, x0, x1, keo_w, gh, df,
    \* locals of the per-keogram loop of overlay_partial.py / 02:27 variant
    todo, start_hour, end_hour, go_df, win_go, ace_df, win_ace, ace_h,
    \* the run of an overlay script as a whole
    drawn,        \* per saved image: [hp, bz], whether the curve has a point,
                  \* and the points and vertical limits of the two curves
    tmp_files,    \* temporary .nc files of this run still on disk
    dates_left,   \* overlay.py: dates of the range after the current one
    ov_input,     \* overlay.py: what is typed at the three prompts
    dirs_made,    \* overlay.py: the output roots were created by this run
    ov_exit,      \* overlay.py: the status passed to sys.exit
    \* the download scripts: what a run has done on the network
    requests_sent,  \* HTTP requests issued so far (index pages and files)
    fetch_calls,    \* calls of download() / smart_fetch() so far
    \* download_goes.py
    dg_args,        \* the two date arguments: "ok", "malformed", "end_before_start"
    dg_months,      \* per month of the range: [index, days]; a day is [file, fetch]
    dg_dry_run,
    discovered, dg_i, downloaded,
    dg_disk,        \* files under the output root: [unit, whole]
    dg_exit,        \* exit status of the process, Running while it runs
    \* download_keograms.py
    dk_args,        \* as dg_args
    dk_days,        \* per day of the range: [remote, exists]
    dk_tool,        \* what shutil.which finds: "wget", "curl" or "requests"
    skip_existing, dk_dry_run,
    to_get, dk_i, ok, miss, err,
    dk_disk,        \* per day, the file at dst: "none", "old", "new" or "junk"
    dk_exit,
    \* download_partial_keograms.py: its inputs ...
    date_ok,        \* the date argument parses
    hrefs,          \* hours NN of the utNN links of the day index, in page order
    answers,        \* the two prompt answers [s, e]
    remote,         \* per hour folder: [found, fetch, w, h] of its keogram PNG
    dry_run, keep_segments,
    \* ... and the locals of main
    avail, hs, he, targets, dl_i, got, canvas, exit_code, disk,
    \* combine_partial_keos.py
    listing,        \* os.listdir(input_dir), in listing order
    cb_i,           \* position of the listing loop
    keogram_groups, \* date -> [(hour, fname)], as <<date, files>> in insertion order
    combined,       \* images written, in order: [date, files, img]
    \* stack_keograms.py
    folder,         \* the files the glob pattern matches
    file_paths, groups,
    stacks,         \* monthly images saved, in order: [ym, fps, img]
    \* composite_png.py
    base_dir,       \* the .png files of BASE_DIR
    by_wave, center_time, triplet_paths,
    written         \* composites saved by this run

envVars     == <<mode, keo_paths, page, goes_file, dscovr_file>>
overlayVars == <<W, first_h, last_h, x0, x1, keo_w, gh, df>>
partialVars == <<todo, start_hour, end_hour, go_df, win_go, ace_df, win_ace, ace_h>>
runVars     == <<drawn, tmp_files, dates_left, ov_input, dirs_made, ov_exit>>
netVars     == <<requests_sent, fetch_calls>>
dgVars      == <<dg_args, dg_months, dg_dry_run, discovered, dg_i, downloaded,
                 dg_disk, dg_exit>>
dkVars      == <<dk_args, dk_days, dk_tool, skip_existing, dk_dry_run, to_get, dk_i,
                 ok, miss, err, dk_disk, dk_exit>>
rangeVars   == <<dgVars, dkVars>>
dlEnvVars   == <<date_ok, hrefs, answers, remote, dry_run, keep_segments>>
dlVars      == <<avail, hs, he, targets, got, canvas, exit_code, disk>>
dlLoopVars  == <<dl_i>>
combineVars == <<listing, keogram_groups, combined>>
cbLoopVars  == <<cb_i>>
stitchVars  == <<dlEnvVars, dlVars, dlLoopVars, combineVars, cbLoopVars, netVars>>
\* everything the overlay scripts leave alone
stackVars   == <<folder, file_paths, groups, stacks>>
compVars    == <<base_dir, by_wave, center_time, triplet_paths, written>>
nonOverlay  == <<stitchVars, stackVars, compVars, rangeVars>>
\* everything the stitching scripts leave alone
nonStitch   == <<envVars, overlayVars, partialVars, runVars, rangeVars, stackVars, compVars>>
\* everything the stacking script leaves alone
nonStack    == <<envVars, overlayVars, partialVars, runVars, rangeVars, stitchVars, compVars>>
\* everything the compositing script leaves alone
nonComp     == <<envVars, overlayVars, partialVars, runVars, rangeVars, stitchVars, stackVars>>
vars == <<script, pc, log, saved, envVars, overlayVars, partialVars, runVars, stitchVars,
          rangeVars,
          stackVars, compVars>>

EmptyFrame == [b \in {} |-> [sum |-> 0, n |-> 0]]

\* locals before their first assignment
OverlayUnset ==
    /\ W = 0 /\ first_h = 0 /\ last_h = 0 /\ x0 = 0 /\ x1 = 0 /\ keo_w = 0
    /\ gh = << >> /\ df = EmptyFrame
PartialUnset ==
    /\ todo = << >> /\ start_hour = 0 /\ end_hour = 0
    /\ go_df = EmptyFrame /\ win_go = EmptyFrame
    /\ ace_df = EmptyFrame /\ win_ace = EmptyFrame /\ ace_h = FALSE
RunUnset ==
    /\ drawn = << >> /\ tmp_files = 0 /\ dates_left = 0
    /\ ov_input = "ok" /\ dirs_made = FALSE /\ ov_exit = 0 - 1

\* ---------------------------------------------------------------------------
\* overlay.py
\* ---------------------------------------------------------------------------

\* scrape_time_bounds: the utHH hours kept are those in 0..24; the window is
\* (smallest, largest + 1).  << >> stands for the RuntimeError raised when the
\* page cannot be fetched or lists no hour folder.
scrape_time_bounds(pg) ==
    LET hours == {hh \in pg.hours : 0 <= hh /\ hh <= HoursPerDay}
    IN  IF ~pg.ok \/ hours = {} THEN << >>
        ELSE <<SetMin(hours), SetMax(hours) + 1>>

\* File names carry their hours as text. A name's `win` is the pair of digit
\* strings of its _<digits>-<digits>_ part, << >> when it has no such part.
RECURSIVE Digits(_)
Digits(n) == IF n < 10 THEN <<n>> ELSE Append(Digits(n \div 10), n % 10)

\* f"{n:02d}"
Format02(n) == IF n < 10 THEN <<0, n>> ELSE Digits(n)

\* int("08") = 8
RECURSIVE IntOf(_)
IntOf(ds) ==
    IF ds = << >> THEN 0
    ELSE 10 * IntOf(SubSeq(ds, 1, Len(ds) - 1)) + ds[Len(ds)]

HourPart(a, b) == <<Format02(a), Format02(b)>>

\* re.search(r'_(\d{1,2})-(\d{1,2})_', name): one or two digits on each side
NameMatches(p) ==
    /\ p.win # << >>
    /\ Len(p.win[1]) \in 1..2 /\ Len(p.win[2]) \in 1..2

\* a parser that takes the second hour of the name as the last hour covered
hours_end_inclusive(p) ==
    IF NameMatches(p) THEN <<IntOf(p.win[1]), IntOf(p.win[2]) + 1>> ELSE << >>

\* hours_from_partial_name: (h0, h1) of the first _H-H_ in the name; << >>
\* stands for the ValueError raised when the name has none
hours_from_partial_name(p) ==
    IF NameMatches(p) THEN <<IntOf(p.win[1]), IntOf(p.win[2])>> ELSE << >>

\* int(W * (h / 24.0)) clamped to [0, W]
CropColumn(width, h) ==
    Max2(0, Min2(width, FTrunc(FMulInt(width, FDiv(h, HoursPerDay)))))

CropX0(width, fh) == CropColumn(width, fh)

\* x1 after the "safety" adjustment
CropX1(width, fh, lh) ==
    LET c0 == CropX0(width, fh)
        c1 == CropColumn(width, lh)
    IN  IF c1 <= c0 THEN Min2(width, c0 + 1) ELSE c1

\* open_goes_series + mask: stamps are cut to whole seconds before the hour
\* is computed; no row is dropped for a missing value
GoesHours(samples) ==
    [i \in DOMAIN samples |->
        [t |-> (samples[i].t \div TicksPerSecond) * TicksPerSecond, v |-> samples[i].v]]

GoesMask(series, fh, lh) == SelectSeq(series, LAMBDA r : InWindow(r.t, fh, lh))

OverlayResampleSeconds == 60

\* open_dscovr_series: dropna, 1-minute means
open_dscovr_series(samples) ==
    Resample(DropNa(samples), OverlayResampleSeconds * TicksPerSecond)

PD_MissKeogram ==
    /\ script = "overlay" /\ pc = "pd_find_keo"
    /\ keo_paths = << >>
    /\ log' = Append(log, "MISS keogram")
    /\ pc' = "returned"
    /\ UNCHANGED <<script, saved, envVars, overlayVars, partialVars,
                   runVars, nonOverlay>>

PD_PartialWindow ==
    /\ script = "overlay" /\ pc = "pd_find_keo"
    /\ keo_paths # << >> /\ mode = "partial"
    /\ hours_from_partial_name(keo_paths[1]) # << >>
    /\ first_h' = hours_from_partial_name(keo_paths[1])[1]
    /\ last_h' = hours_from_partial_name(keo_paths[1])[2]
    /\ keo_w' = keo_paths[1].W
    /\ pc' = "pd_find_data"
    /\ UNCHANGED <<script, log, saved, envVars, W, x0, x1, gh, df, partialVars,
                   runVars, nonOverlay>>

PD_PartialBadName ==
    /\ script = "overlay" /\ pc = "pd_find_keo"
    /\ keo_paths # << >> /\ mode = "partial"
    /\ hours_from_partial_name(keo_paths[1]) = << >>
    /\ pc' = "raised"
    /\ UNCHANGED <<script, log, saved, envVars, overlayVars, partialVars,
                   runVars, nonOverlay>>

PD_ScrapeFail ==
    /\ script = "overlay" /\ pc = "pd_find_keo"
    /\ keo_paths # << >> /\ mode = "full"
    /\ scrape_time_bounds(page) = << >>
    /\ log' = Append(log, "MISS scrape")
    /\ pc' = "returned"
    /\ UNCHANGED <<script, saved, envVars, overlayVars, partialVars,
                   runVars, nonOverlay>>

PD_FullCrop ==
    /\ script = "overlay" /\ pc = "pd_find_keo"
    /\ keo_paths # << >> /\ mode = "full"
    /\ scrape_time_bounds(page) # << >>
    /\ first_h' = scrape_time_bounds(page)[1]
    /\ last_h' = scrape_time_bounds(page)[2]
    /\ W' = keo_paths[1].W
    /\ x0' = CropX0(W', first_h')
    /\ x1' = CropX1(W', first_h', last_h')
    /\ keo_w' = x1' - x0'
    /\ pc' = "pd_find_data"
    /\ UNCHANGED <<script, log, saved, envVars, gh, df, partialVars,
                   runVars, nonOverlay>>

PD_MissData ==
    /\ script = "overlay" /\ pc = "pd_find_data"
    /\ ~(goes_file.found /\ dscovr_file.found)
    /\ log' = Append(log, "MISS data")
    /\ pc' = "returned"
    /\ UNCHANGED <<script, saved, envVars, overlayVars, partialVars,
                   runVars, nonOverlay>>

PD_FoundData ==
    /\ script = "overlay" /\ pc = "pd_find_data"
    /\ goes_file.found /\ dscovr_file.found
    /\ pc' = "pd_goes"
    /\ UNCHANGED <<script, log, saved, envVars, overlayVars, partialVars,
                   runVars, nonOverlay>>

PD_GoesFail ==
    /\ script = "overlay" /\ pc = "pd_goes"
    /\ ~goes_file.ok
    /\ log' = Append(log, "MISS GOES read")
    /\ pc' = "returned"
    /\ UNCHANGED <<script, saved, envVars, overlayVars, partialVars,
                   runVars, nonOverlay>>

PD_LoadGoes ==
    /\ script = "overlay" /\ pc = "pd_goes"
    /\ goes_file.ok
    /\ gh' = GoesMask(GoesHours(goes_file.samples), first_h, last_h)
    /\ pc' = "pd_dscovr"
    /\ UNCHANGED <<script, log, saved, envVars, W, first_h, last_h, x0, x1, keo_w, df,
                   partialVars,
                   runVars, nonOverlay>>

\* the temporary file is created inside the `with` and removed by the
\* `finally` of the block after it: a failure while copying the decompressed
\* bytes leaves the `with` before that block is entered
PD_DscovrFail ==
    /\ script = "overlay" /\ pc = "pd_dscovr"
    /\ ~dscovr_file.ok
    /\ tmp_files' = IF dscovr_file.fault = "gunzip" THEN tmp_files + 1 ELSE tmp_files
    /\ log' = Append(log, "MISS DSCOVR read")
    /\ pc' = "returned"
    /\ UNCHANGED <<script, saved, envVars, overlayVars, partialVars,
                   drawn, dates_left, ov_input, dirs_made, ov_exit, nonOverlay>>

PD_LoadDscovr ==
    /\ script = "overlay" /\ pc = "pd_dscovr"
    /\ dscovr_file.ok
    /\ df' = FilterFrame(open_dscovr_series(dscovr_file.samples), first_h, last_h)
    /\ pc' = "pd_plot"
    /\ UNCHANGED <<script, log, saved, envVars, W, first_h, last_h, x0, x1, keo_w, gh,
                   partialVars,
                   runVars, nonOverlay>>

\* a curve is plotted under `if gh.size` / `if not df.empty`
PD_PlotSave ==
    /\ script = "overlay" /\ pc = "pd_plot"
    /\ saved' = Append(saved, <<"overlaid_plot", mode>>)
    /\ drawn' = Append(drawn,
          [hp |-> gh # << >>, bz |-> DOMAIN df # {},
           hp_pts |-> SeriesPoints(gh),
           hp_lim |-> IF gh # << >> THEN Limits(HpFloor, HpCeil, SeriesPoints(gh))
                      ELSE AutoLimits({}),
           bz_pts |-> FramePoints(df),
           bz_lim |-> IF DOMAIN df # {} THEN Limits(BzFloor, BzCeil, FramePoints(df))
                      ELSE AutoLimits({})])
    /\ log' = Append(log, "SAVED")
    /\ pc' = "done"
    /\ UNCHANGED <<script, envVars, overlayVars, partialVars,
                   tmp_files, dates_left, ov_input, dirs_made, ov_exit, nonOverlay>>

NextOverlay ==
    \/ PD_MissKeogram \/ PD_PartialWindow \/ PD_PartialBadName
    \/ PD_ScrapeFail \/ PD_FullCrop
    \/ PD_MissData \/ PD_FoundData
    \/ PD_GoesFail \/ PD_LoadGoes
    \/ PD_DscovrFail \/ PD_LoadDscovr
    \/ PD_PlotSave

\* ---------------------------------------------------------------------------
\* overlay_partial.py and its fixed-date variant ("02:27_partial _keo.py",
\* src/unnamed/part_000): one pass of the loop body per keogram file.
\* ---------------------------------------------------------------------------
PartialScripts == {"overlay_partial", "part_000"}

PartialResampleSeconds == 10
FixedStartHour == 8
FixedEndHour == 12

\* the window of one keogram: parsed from its name, or the variant's constants
WindowOf(scr, keo) ==
    IF scr = "part_000" THEN <<FixedStartHour, FixedEndHour>>
    ELSE <<IntOf(keo.win[1]), IntOf(keo.win[2])>>

\* ([0-9]{2})-([0-9]{2}) in the name pattern: exactly two digits on each side
PatternMatches(keo) ==
    /\ keo.win # << >>
    /\ Len(keo.win[1]) = 2 /\ Len(keo.win[2]) = 2

\* goes_df / ace_df: dropna, then 10-second means
PartialResample(samples) ==
    Resample(DropNa(samples), PartialResampleSeconds * TicksPerSecond)

PK_Exit ==
    /\ script \in PartialScripts /\ pc = "loop"
    /\ todo = << >>
    /\ pc' = "done"
    /\ UNCHANGED <<script, log, saved, envVars, overlayVars, partialVars,
                   runVars, nonOverlay>>

\* the name does not match the pattern: continue with the next file
PK_Skip ==
    /\ script \in PartialScripts /\ pc = "loop"
    /\ todo # << >> /\ ~PatternMatches(Head(todo))
    /\ todo' = Tail(todo)
    /\ log' = IF script = "overlay_partial" THEN Append(log, "Skipping unrecognized")
              ELSE log
    /\ UNCHANGED <<script, pc, saved, envVars, overlayVars, start_hour, end_hour,
                   go_df, win_go, ace_df, win_ace, ace_h,
                   runVars, nonOverlay>>

PK_Match ==
    /\ script \in PartialScripts /\ pc = "loop"
    /\ todo # << >> /\ PatternMatches(Head(todo))
    /\ todo' = Tail(todo)
    /\ start_hour' = WindowOf(script, Head(todo))[1]
    /\ end_hour' = WindowOf(script, Head(todo))[2]
    /\ pc' = "pk_goes"
    /\ UNCHANGED <<script, log, saved, envVars, overlayVars,
                   go_df, win_go, ace_df, win_ace, ace_h,
                   runVars, nonOverlay>>

PK_NoGoes ==
    /\ script \in PartialScripts /\ pc = "pk_goes"
    /\ ~goes_file.found
    /\ log' = Append(log, "No GOES file")
    /\ pc' = "loop"
    /\ UNCHANGED <<script, saved, envVars, overlayVars, partialVars,
                   runVars, nonOverlay>>

\* Dataset(...) or a variable lookup raises: nothing catches it
PK_GoesRaise ==
    /\ script \in PartialScripts /\ pc = "pk_goes"
    /\ goes_file.found /\ ~goes_file.ok
    /\ pc' = "raised"
    /\ UNCHANGED <<script, log, saved, envVars, overlayVars, partialVars,
                   runVars, nonOverlay>>

\* a file without samples gives a frame whose index holds no timestamps:
\* .resample('10s') rejects an index that is not datetime-like, and whether
\* the empty index is one depends on the dtype the reader hands over
PK_GoesEmptyRaise ==
    /\ script \in PartialScripts /\ pc = "pk_goes"
    /\ goes_file.found /\ goes_file.ok /\ goes_file.samples = << >>
    /\ pc' = "raised"
    /\ UNCHANGED <<script, log, saved, envVars, overlayVars, partialVars,
                   runVars, nonOverlay>>

PK_LoadGoes ==
    /\ script \in PartialScripts /\ pc = "pk_goes"
    /\ goes_file.found /\ goes_file.ok
    /\ go_df' = PartialResample(goes_file.samples)
    /\ win_go' = FilterFrame(go_df', start_hour, end_hour)
    /\ ace_h' = FALSE
    /\ pc' = "pk_ace"
    /\ UNCHANGED <<script, log, saved, envVars, overlayVars, todo, start_hour, end_hour,
                   ace_df, win_ace,
                   runVars, nonOverlay>>

PK_NoAce ==
    /\ script \in PartialScripts /\ pc = "pk_ace"
    /\ ~dscovr_file.found
    /\ pc' = "pk_plot"
    /\ UNCHANGED <<script, log, saved, envVars, overlayVars, partialVars,
                   runVars, nonOverlay>>

\* overlay_partial.py wraps the ACE block in try/except; the variant does not.
\* os.remove(tmp_path) is the statement after ds_ace.close(): no failure of
\* the block reaches it, and the temporary file exists from the `with` on
PK_AceFail ==
    /\ script \in PartialScripts /\ pc = "pk_ace"
    /\ dscovr_file.found /\ ~dscovr_file.ok
    /\ tmp_files' = tmp_files + 1
    /\ IF script = "overlay_partial"
       THEN log' = Append(log, "Failed ACE") /\ pc' = "pk_plot"
       ELSE log' = log /\ pc' = "raised"
    /\ UNCHANGED <<script, saved, envVars, overlayVars, partialVars,
                   drawn, dates_left, ov_input, dirs_made, ov_exit, nonOverlay>>

\* the variant builds the ACE frame without pd.to_datetime: as for GOES, an
\* empty file may be rejected by .resample; the temporary file is gone by then
PK_AceEmptyRaise ==
    /\ script = "part_000" /\ pc = "pk_ace"
    /\ dscovr_file.found /\ dscovr_file.ok /\ dscovr_file.samples = << >>
    /\ pc' = "raised"
    /\ UNCHANGED <<script, log, saved, envVars, overlayVars, partialVars,
                   runVars, nonOverlay>>

PK_LoadAce ==
    /\ script \in PartialScripts /\ pc = "pk_ace"
    /\ dscovr_file.found /\ dscovr_file.ok
    /\ ace_df' = PartialResample(dscovr_file.samples)
    /\ win_ace' = FilterFrame(ace_df', start_hour, end_hour)
    /\ ace_h' = TRUE
    /\ pc' = "pk_plot"
    /\ UNCHANGED <<script, log, saved, envVars, overlayVars, todo, start_hour, end_hour,
                   go_df, win_go,
                   runVars, nonOverlay>>

\* overlay_partial.py takes np.nanmin(he), np.nanmax(he) of the whole array
\* read from the file, whatever the window holds: a zero-size array raises
\* ValueError.  The variant sets no Hp limits.
NanminRaises(scr, samples) == scr = "overlay_partial" /\ samples = << >>

PK_PlotRaise ==
    /\ script \in PartialScripts /\ pc = "pk_plot"
    /\ NanminRaises(script, goes_file.samples)
    /\ pc' = "raised"
    /\ UNCHANGED <<script, log, saved, envVars, overlayVars, partialVars,
                   runVars, nonOverlay>>

\* the Hp curve is always handed to plot; Bz only under
\* `ace_h is not None and len(bz_vals) > 0`
PK_PlotSave ==
    /\ script \in PartialScripts /\ pc = "pk_plot"
    /\ ~NanminRaises(script, goes_file.samples)
    /\ saved' = Append(saved, <<"overlaid_partial_plot", start_hour, end_hour>>)
    /\ drawn' = Append(drawn,
          [hp |-> DOMAIN win_go # {}, bz |-> ace_h /\ DOMAIN win_ace # {},
           hp_pts |-> FramePoints(win_go),
           hp_lim |-> IF script = "overlay_partial"
                      THEN Limits(HpFloor, HpCeil, SeriesPoints(goes_file.samples))
                      ELSE AutoLimits(FramePoints(win_go)),
           bz_pts |-> IF ace_h THEN FramePoints(win_ace) ELSE {},
           bz_lim |-> IF ~(ace_h /\ DOMAIN win_ace # {}) THEN AutoLimits({})
                      ELSE IF script = "overlay_partial"
                      THEN Limits(BzFloor, BzCeil, FramePoints(ace_df))
                      ELSE [lo |-> Rat(BzFloor), hi |-> Rat(BzCeil)]])
    /\ log' = Append(log, "Saved")
    /\ pc' = "loop"
    /\ UNCHANGED <<script, envVars, overlayVars, partialVars,
                   tmp_files, dates_left, ov_input, dirs_made, ov_exit, nonOverlay>>

NextPartial ==
    \/ PK_Exit \/ PK_Skip \/ PK_Match
    \/ PK_NoGoes \/ PK_GoesRaise \/ PK_GoesEmptyRaise \/ PK_LoadGoes
    \/ PK_NoAce \/ PK_AceFail \/ PK_AceEmptyRaise \/ PK_LoadAce
    \/ PK_PlotRaise \/ PK_PlotSave


\* ---------------------------------------------------------------------------
\* Images: a height and a sequence of columns; a column carries the image it
\* came from, its index there and the height it was sampled at
\* ---------------------------------------------------------------------------
Black == <<0 - 1, 0, 0>>
Image(src, w, h) == [h |-> h, cols |-> [x \in 1..w |-> <<src, x, h>>]]
Width(im) == Len(im.cols)
NewCanvas(w, h) == [h |-> h, cols |-> [x \in 1..w |-> Black]]
NoImage == [h |-> 0, cols |-> << >>]

\* PIL canvas.paste(im, (x, 0)): the columns x+1 .. x+width of the canvas
Paste(cv, im, x) ==
    [cv EXCEPT !.cols = [k \in 1..Len(cv.cols) |->
        IF k > x /\ k <= x + Width(im) THEN im.cols[k - x] ELSE cv.cols[k]]]

\* im.resize((nw, hmin)): nw columns resampled at height hmin
Resize(im, nw, hmin) ==
    [h |-> hmin, cols |-> [x \in 1..nw |-> <<im.cols[1][1], x, hmin>>]]

SumWidths(imgs) == SumOver([i \in 1..Len(imgs) |-> Width(imgs[i])], 1..Len(imgs))
HeightsOf(imgs) == {imgs[i].h : i \in 1..Len(imgs)}

\* nw = int(im.width * (hmin / im.height))
ResizedWidth(w, hmin, h) == FTrunc(FMulInt(w, FDiv(hmin, h)))

\* the height-equalising loop of concat_horizontal
FixHeights(imgs) ==
    LET hmin == SetMin(HeightsOf(imgs)) IN
    IF Cardinality(HeightsOf(imgs)) > 1
    THEN [i \in 1..Len(imgs) |->
            IF imgs[i].h # hmin
            THEN Resize(imgs[i], ResizedWidth(Width(imgs[i]), hmin, imgs[i].h), hmin)
            ELSE imgs[i]]
    ELSE imgs

\* Pillow's resize rejects a zero width
ConcatRaises(imgs) ==
    LET hmin == SetMin(HeightsOf(imgs)) IN
    /\ Cardinality(HeightsOf(imgs)) > 1
    /\ \E i \in 1..Len(imgs) :
        /\ imgs[i].h # hmin
        /\ ResizedWidth(Width(imgs[i]), hmin, imgs[i].h) = 0

RECURSIVE PasteAllOverlap(_, _, _, _)
PasteAllOverlap(cv, imgs, i, x) ==
    IF i > Len(imgs) THEN cv
    ELSE PasteAllOverlap(Paste(cv, imgs[i], x), imgs, i + 1, x + imgs[i].h)

\* x = 0; for im in imgs: canvas.paste(im, (x, 0)); x += im.width
RECURSIVE PasteAll(_, _, _, _)
PasteAll(cv, imgs, i, x) ==
    IF i > Len(imgs) THEN cv
    ELSE PasteAll(Paste(cv, imgs[i], x), imgs, i + 1, x + Width(imgs[i]))

concat_horizontal(imgs) ==
    LET fixed == FixHeights(imgs)
        total_w == SumWidths(fixed)
    IN  PasteAll(NewCanvas(total_w, fixed[1].h), fixed, 1, 0)

\* np.hstack of equally high arrays: the columns side by side
RECURSIVE ConcatCols(_, _)
ConcatCols(imgs, i) ==
    IF i > Len(imgs) THEN << >> ELSE imgs[i].cols \o ConcatCols(imgs, i + 1)
hstack(imgs) == [h |-> imgs[1].h, cols |-> ConcatCols(imgs, 1)]
HstackRaises(imgs) == Cardinality(HeightsOf(imgs)) > 1

\* sorted(S) of a set of integers
RECURSIVE SortedSeq(_)
SortedSeq(S) ==
    IF S = {} THEN << >> ELSE <<SetMin(S)>> \o SortedSeq(S \ {SetMin(S)})
SelectSeqIn(seq, S) == SelectSeq(seq, LAMBDA e : e \in S)
Range(seq) == {seq[i] : i \in 1..Len(seq)}

\* ---------------------------------------------------------------------------
\* download_partial_keograms.py
\* ---------------------------------------------------------------------------
Running == 0 - 1
Blank == [kind |-> "blank", n |-> 0]
NotANumber == [kind |-> "text", n |-> 0]
Typed(k) == [kind |-> "int", n |-> k]

\* the hours of the utNN links, 0..24 only: sorted(set(hours))
scrape_hours(links) ==
    SortedSeq({links[i] : i \in 1..Len(links)} \cap 0..HoursPerDay)

\* s = input().strip() or ds
Answer(a, default) == IF a.kind = "blank" THEN Typed(default) ELSE a
PromptS == Answer(answers[1], avail[1])
PromptE == Answer(answers[2], avail[Len(avail)])

\* the segment pick_hour_filename and download deliver for hour hh
Segment(hh) == Image(hh, remote[hh].w, remote[hh].h)
SegmentsOf(hours) == [i \in 1..Len(hours) |-> Segment(hours[i])]

\* the hours of the chosen window: pick_hour_filename fetches the index of
\* each of them
WindowHours == SelectSeq(avail, LAMBDA h : hs <= h /\ h <= he)

\* [h for h in avail if hs <= h <= he] with a keogram in the hour folder
PickTargets == SelectSeq(avail, LAMBDA h : hs <= h /\ h <= he /\ remote[h].found)

StitchedName == HourPart(hs, he + 1)
NoDisk == [segments |-> {}, stitched |-> {}]

Exit(code) ==
    /\ exit_code' = code
    /\ pc' = "exited"

DL_BadDate ==
    /\ script = "download_partial_keograms" /\ pc = "dl_start"
    /\ ~date_ok
    /\ Exit(1)
    /\ UNCHANGED <<script, dl_i, log, saved, dlEnvVars, avail, hs, he, targets, got,
                   canvas, disk, combineVars, cbLoopVars,
                   netVars, nonStitch>>

DL_ScrapeNone ==
    /\ script = "download_partial_keograms" /\ pc = "dl_start"
    /\ date_ok
    /\ requests_sent' = requests_sent + 1
    /\ scrape_hours(hrefs) = << >>
    /\ avail' = << >>
    /\ Exit(2)
    /\ UNCHANGED <<script, dl_i, log, saved, dlEnvVars, hs, he, targets, got,
                   canvas, disk, combineVars, cbLoopVars,
                   fetch_calls, nonStitch>>

DL_Scrape ==
    /\ script = "download_partial_keograms" /\ pc = "dl_start"
    /\ date_ok
    /\ requests_sent' = requests_sent + 1
    /\ scrape_hours(hrefs) # << >>
    /\ avail' = scrape_hours(hrefs)
    /\ pc' = "dl_prompt"
    /\ UNCHANGED <<script, dl_i, log, saved, dlEnvVars, hs, he, targets, got,
                   canvas, exit_code, disk, combineVars, cbLoopVars,
                   fetch_calls, nonStitch>>

DL_PromptValueError ==
    /\ script = "download_partial_keograms" /\ pc = "dl_prompt"
    /\ PromptS.kind = "text" \/ PromptE.kind = "text"
    /\ Exit(3)
    /\ UNCHANGED <<script, dl_i, log, saved, dlEnvVars, avail, hs, he, targets, got,
                   canvas, disk, combineVars, cbLoopVars,
                   netVars, nonStitch>>

DL_PromptEndBeforeStart ==
    /\ script = "download_partial_keograms" /\ pc = "dl_prompt"
    /\ PromptS.kind = "int" /\ PromptE.kind = "int"
    /\ PromptE.n - 1 < PromptS.n
    /\ hs' = PromptS.n /\ he' = PromptE.n - 1
    /\ Exit(3)
    /\ UNCHANGED <<script, dl_i, log, saved, dlEnvVars, avail, targets, got,
                   canvas, disk, combineVars, cbLoopVars,
                   netVars, nonStitch>>

DL_PromptNotAvail ==
    /\ script = "download_partial_keograms" /\ pc = "dl_prompt"
    /\ PromptS.kind = "int" /\ PromptE.kind = "int"
    /\ PromptE.n - 1 >= PromptS.n
    /\ PromptS.n \notin Range(avail) \/ PromptE.n - 1 \notin Range(avail)
    /\ hs' = PromptS.n /\ he' = PromptE.n - 1
    /\ Exit(3)
    /\ UNCHANGED <<script, dl_i, log, saved, dlEnvVars, avail, targets, got,
                   canvas, disk, combineVars, cbLoopVars,
                   netVars, nonStitch>>

DL_PromptOk ==
    /\ script = "download_partial_keograms" /\ pc = "dl_prompt"
    /\ PromptS.kind = "int" /\ PromptE.kind = "int"
    /\ PromptE.n - 1 >= PromptS.n
    /\ PromptS.n \in Range(avail) /\ PromptE.n - 1 \in Range(avail)
    /\ hs' = PromptS.n /\ he' = PromptE.n - 1
    /\ pc' = "dl_pick"
    /\ UNCHANGED <<script, dl_i, log, saved, dlEnvVars, avail, targets, got,
                   canvas, exit_code, disk, combineVars, cbLoopVars,
                   netVars, nonStitch>>

DL_DryRun ==
    /\ script = "download_partial_keograms" /\ pc = "dl_pick"
    /\ requests_sent' = requests_sent + Len(WindowHours)
    /\ dry_run
    /\ targets' = PickTargets
    /\ log' = [i \in 1..Len(PickTargets) |-> "url"]
    /\ pc' = "returned"
    /\ UNCHANGED <<script, dl_i, saved, dlEnvVars, avail, hs, he, got,
                   canvas, exit_code, disk, combineVars, cbLoopVars,
                   fetch_calls, nonStitch>>

DL_NoTargets ==
    /\ script = "download_partial_keograms" /\ pc = "dl_pick"
    /\ requests_sent' = requests_sent + Len(WindowHours)
    /\ ~dry_run
    /\ PickTargets = << >>
    /\ targets' = << >>
    /\ Exit(2)
    /\ UNCHANGED <<script, dl_i, log, saved, dlEnvVars, avail, hs, he, got,
                   canvas, disk, combineVars, cbLoopVars,
                   fetch_calls, nonStitch>>

DL_Targets ==
    /\ script = "download_partial_keograms" /\ pc = "dl_pick"
    /\ requests_sent' = requests_sent + Len(WindowHours)
    /\ ~dry_run
    /\ PickTargets # << >>
    /\ targets' = PickTargets
    /\ pc' = "dl_download"
    /\ UNCHANGED <<script, dl_i, log, saved, dlEnvVars, avail, hs, he, got,
                   canvas, exit_code, disk, combineVars, cbLoopVars,
                   fetch_calls, nonStitch>>

\* the next target of the download loop
NextTarget == targets[dl_i]
MoreTargets == dl_i <= Len(targets)

DL_DownloadOk ==
    /\ script = "download_partial_keograms" /\ pc = "dl_download"
    /\ MoreTargets
    /\ fetch_calls' = fetch_calls + 1
    /\ requests_sent' = requests_sent + 1
    /\ remote[NextTarget].fetch = "ok"
    /\ got' = Append(got, NextTarget)
    /\ disk' = [disk EXCEPT !.segments = @ \cup {[hour |-> NextTarget, whole |-> TRUE]}]
    /\ dl_i' = dl_i + 1
    /\ UNCHANGED <<script, pc, log, saved, dlEnvVars, avail, hs, he, targets,
                   canvas, exit_code, combineVars, cbLoopVars,
                   nonStitch>>

\* download() returns False; curl --fail writes nothing, wget -O leaves an
\* empty file behind
DL_Download404 ==
    /\ script = "download_partial_keograms" /\ pc = "dl_download"
    /\ MoreTargets
    /\ fetch_calls' = fetch_calls + 1
    /\ requests_sent' = requests_sent + 1
    /\ remote[NextTarget].fetch = "404"
    /\ log' = Append(log, "404")
    /\ \E left \in BOOLEAN :
        disk' = IF left
                THEN [disk EXCEPT !.segments = @ \cup {[hour |-> NextTarget, whole |-> FALSE]}]
                ELSE disk
    /\ dl_i' = dl_i + 1
    /\ UNCHANGED <<script, pc, saved, dlEnvVars, avail, hs, he, targets, got,
                   canvas, exit_code, combineVars, cbLoopVars,
                   nonStitch>>

\* requests.get raises: nothing in main catches it
DL_DownloadError ==
    /\ script = "download_partial_keograms" /\ pc = "dl_download"
    /\ MoreTargets
    /\ fetch_calls' = fetch_calls + 1
    /\ requests_sent' = requests_sent + 1
    /\ remote[NextTarget].fetch = "error"
    /\ pc' = "raised"
    /\ exit_code' = 1
    /\ \E left \in BOOLEAN :
        disk' = IF left
                THEN [disk EXCEPT !.segments = @ \cup {[hour |-> NextTarget, whole |-> FALSE]}]
                ELSE disk
    /\ UNCHANGED <<script, dl_i, log, saved, dlEnvVars, avail, hs, he, targets, got,
                   canvas, combineVars, cbLoopVars,
                   nonStitch>>

DL_NoneGot ==
    /\ script = "download_partial_keograms" /\ pc = "dl_download"
    /\ ~MoreTargets
    /\ got = << >>
    /\ Exit(2)
    /\ UNCHANGED <<script, dl_i, log, saved, dlEnvVars, avail, hs, he, targets, got,
                   canvas, disk, combineVars, cbLoopVars,
                   netVars, nonStitch>>

DL_StitchFail ==
    /\ script = "download_partial_keograms" /\ pc = "dl_download"
    /\ ~MoreTargets
    /\ got # << >>
    /\ ConcatRaises(SegmentsOf(got))
    /\ Exit(3)
    /\ UNCHANGED <<script, dl_i, log, saved, dlEnvVars, avail, hs, he, targets, got,
                   canvas, disk, combineVars, cbLoopVars,
                   netVars, nonStitch>>

\* a cleanup that does not look at --keep-segments
DL_StitchCleanAlways ==
    /\ script = "download_partial_keograms" /\ pc = "dl_download"
    /\ ~MoreTargets
    /\ got # << >>
    /\ ~ConcatRaises(SegmentsOf(got))
    /\ canvas' = concat_horizontal(SegmentsOf(got))
    /\ disk' = [segments |-> {f \in disk.segments : f.hour \notin Range(got)},
                stitched |-> disk.stitched \cup {StitchedName}]
    /\ exit_code' = 0
    /\ pc' = "done"
    /\ UNCHANGED <<script, dl_i, log, saved, dlEnvVars, avail, hs, he, targets, got,
                   combineVars, cbLoopVars,
                   netVars, nonStitch>>

\* concat_horizontal, then the cleanup of the segments unless --keep-segments
DL_Stitch ==
    /\ script = "download_partial_keograms" /\ pc = "dl_download"
    /\ ~MoreTargets
    /\ got # << >>
    /\ ~ConcatRaises(SegmentsOf(got))
    /\ canvas' = concat_horizontal(SegmentsOf(got))
    /\ disk' = [segments |-> IF keep_segments THEN disk.segments
                             ELSE {f \in disk.segments : f.hour \notin Range(got)},
                stitched |-> disk.stitched \cup {StitchedName}]
    /\ exit_code' = 0
    /\ pc' = "done"
    /\ UNCHANGED <<script, dl_i, log, saved, dlEnvVars, avail, hs, he, targets, got,
                   combineVars, cbLoopVars,
                   netVars, nonStitch>>

NextDownload ==
    \/ DL_BadDate \/ DL_ScrapeNone \/ DL_Scrape
    \/ DL_PromptValueError \/ DL_PromptEndBeforeStart \/ DL_PromptNotAvail
    \/ DL_PromptOk
    \/ DL_DryRun \/ DL_NoTargets \/ DL_Targets
    \/ DL_DownloadOk \/ DL_Download404 \/ DL_DownloadError
    \/ DL_NoneGot \/ DL_StitchFail \/ DL_Stitch

\* ---------------------------------------------------------------------------
\* combine_partial_keos.py
\* ---------------------------------------------------------------------------
\* A directory entry: kind "slice" is a name the pattern
\* (\d{8})_(\d{2})_pfrr_asi3_rgb-keogram\.png matches at its start and that
\* ends in .png; tail 0 is the bare name, tail 1 a name with more text
\* between the pattern and the final .png; kind "other" is any other .png and
\* kind "nonpng" a name without that ending
FileId(f) == f.date * 1000 + f.hour * 10 + f.tail
SliceImage(f) == Image(FileId(f), f.w, f.h)
SlicesOf(files) == [i \in 1..Len(files) |-> SliceImage(files[i])]

\* tuple order of (hour, fname) within one date
FileBefore(a, b) == a.hour < b.hour \/ (a.hour = b.hour /\ a.tail < b.tail)
RECURSIVE SortFiles(_)
SortFiles(S) ==
    IF S = {} THEN << >>
    ELSE LET m == CHOOSE a \in S : \A b \in S \ {a} : FileBefore(a, b)
         IN  <<m>> \o SortFiles(S \ {m})

\* keogram_groups[date_str].append(...) keeping the dict's insertion order
GroupAppend(grps, f) ==
    IF \E g \in 1..Len(grps) : grps[g].date = f.date
    THEN [g \in 1..Len(grps) |->
            IF grps[g].date = f.date
            THEN [grps[g] EXCEPT !.files = Append(@, f)]
            ELSE grps[g]]
    ELSE Append(grps, [date |-> f.date, files |-> <<f>>])

\* the entry the listing loop is at, and the group the combine loop is at
ListingAt == listing[cb_i]
GroupAt == keogram_groups[Len(combined) + 1]

CB_SkipNonPng ==
    /\ script = "combine_partial_keos" /\ pc = "cb_list"
    /\ cb_i <= Len(listing)
    /\ ListingAt.kind = "nonpng"
    /\ cb_i' = cb_i + 1
    /\ UNCHANGED <<script, pc, log, saved, dlEnvVars, dlVars, dlLoopVars, listing,
                   keogram_groups, combined, netVars, nonStitch>>

CB_SkipUnrecognized ==
    /\ script = "combine_partial_keos" /\ pc = "cb_list"
    /\ cb_i <= Len(listing)
    /\ ListingAt.kind = "other"
    /\ log' = Append(log, "Skipping unrecognized file")
    /\ cb_i' = cb_i + 1
    /\ UNCHANGED <<script, pc, saved, dlEnvVars, dlVars, dlLoopVars, listing,
                   keogram_groups, combined, netVars, nonStitch>>

CB_Append ==
    /\ script = "combine_partial_keos" /\ pc = "cb_list"
    /\ cb_i <= Len(listing)
    /\ ListingAt.kind = "slice"
    /\ keogram_groups' = GroupAppend(keogram_groups, ListingAt)
    /\ cb_i' = cb_i + 1
    /\ UNCHANGED <<script, pc, log, saved, dlEnvVars, dlVars, dlLoopVars, listing,
                   combined, netVars, nonStitch>>

CB_Listed ==
    /\ script = "combine_partial_keos" /\ pc = "cb_list"
    /\ cb_i > Len(listing)
    /\ pc' = "cb_combine"
    /\ UNCHANGED <<script, log, saved, dlEnvVars, dlVars, dlLoopVars, combineVars,
                   cbLoopVars, netVars, nonStitch>>

\* files.sort(), the slices, then np.hstack and the save
CB_Combine ==
    /\ script = "combine_partial_keos" /\ pc = "cb_combine"
    /\ Len(combined) < Len(keogram_groups)
    /\ LET files == SortFiles(Range(GroupAt.files)) IN
        /\ ~HstackRaises(SlicesOf(files))
        /\ keogram_groups' = [keogram_groups EXCEPT ![Len(combined) + 1].files = files]
        /\ combined' = Append(combined, [date |-> GroupAt.date, files |-> files,
                                         img |-> hstack(SlicesOf(files))])
    /\ UNCHANGED <<script, pc, log, saved, dlEnvVars, dlVars, dlLoopVars, listing, cb_i,
                   netVars, nonStitch>>

\* heights differ: the warning is printed and np.hstack raises ValueError
CB_CombineRaise ==
    /\ script = "combine_partial_keos" /\ pc = "cb_combine"
    /\ Len(combined) < Len(keogram_groups)
    /\ HstackRaises(SlicesOf(SortFiles(Range(GroupAt.files))))
    /\ keogram_groups' = [keogram_groups EXCEPT
            ![Len(combined) + 1].files = SortFiles(Range(GroupAt.files))]
    /\ log' = Append(log, "Warning: Image heights differ")
    /\ pc' = "raised"
    /\ UNCHANGED <<script, saved, dlEnvVars, dlVars, dlLoopVars, listing, cb_i, combined,
                   netVars, nonStitch>>

CB_Done ==
    /\ script = "combine_partial_keos" /\ pc = "cb_combine"
    /\ Len(combined) = Len(keogram_groups)
    /\ pc' = "done"
    /\ UNCHANGED <<script, log, saved, dlEnvVars, dlVars, dlLoopVars, combineVars,
                   cbLoopVars, netVars, nonStitch>>

NextCombine ==
    \/ CB_SkipNonPng \/ CB_SkipUnrecognized \/ CB_Append \/ CB_Listed
    \/ CB_Combine \/ CB_CombineRaise \/ CB_Done

NextStitch == NextDownload \/ NextCombine

\* ---------------------------------------------------------------------------
\* stack_keograms.py
\* ---------------------------------------------------------------------------
\* A file the glob returns: ym and day are the digits of its name, tail orders
\* names of one date, kind "dated" is a name the YYYYMMDD__ pattern matches
White == <<0 - 2, 0, 0>>
AspectRatio == 10
LineWidth == 10
RefHours == <<6, 12>>

\* a raster: rows[y + 1][x + 1] is the pixel at (x, y)
Raster(w, h, px(_, _)) ==
    [w |-> w, h |-> h, rows |-> [y \in 1..h |-> [x \in 1..w |-> px(x - 1, y - 1)]]]
PixelAt(im, x, y) == im.rows[y + 1][x + 1]
Blank2D(w, h) == Raster(w, h, LAMBDA x, y : Black)

\* im.paste(src, (0, y0)): src's pixels over the rows y0 .. y0 + src.h - 1
PasteRows(cv, src, y0) ==
    Raster(cv.w, cv.h,
        LAMBDA x, y : IF y >= y0 /\ y < y0 + src.h /\ x < src.w
                      THEN PixelAt(src, x, y - y0) ELSE PixelAt(cv, x, y))

StackId(f) == (f.ym * 100 + f.day) * 10 + f.tail
\* im.resize((10 * h, h)): pixel (x, y) of the resized image of file f
ResizedKeo(f) == Raster(AspectRatio * f.h, f.h, LAMBDA x, y : <<StackId(f), x, y>>)

\* string order of the names of dated files
NameBefore(a, b) == StackId(a) < StackId(b)
RECURSIVE SortNames(_)
SortNames(S) ==
    IF S = {} THEN << >>
    ELSE LET m == CHOOSE a \in S : \A b \in S \ {a} : NameBefore(a, b)
         IN  <<m>> \o SortNames(S \ {m})

\* the narrower image on a black canvas of the full width
Padded(im, max_width) ==
    IF im.w < max_width THEN PasteRows(Blank2D(max_width, im.h), im, 0) ELSE im

RECURSIVE PasteDownStep(_, _, _, _)
PasteDownStep(cv, images, i, y_offset) ==
    IF i > Len(images) THEN cv
    ELSE PasteDownStep(PasteRows(cv, Padded(images[i], cv.w), y_offset),
                       images, i + 1, y_offset + 1)

\* y_offset = 0; for im in images: paste at (0, y_offset); y_offset += im.height
RECURSIVE PasteDown(_, _, _, _)
PasteDown(cv, images, i, y_offset) ==
    IF i > Len(images) THEN cv
    ELSE PasteDown(PasteRows(cv, Padded(images[i], cv.w), y_offset),
                   images, i + 1, y_offset + images[i].h)

\* x = int(max_width * (hour / 24.0))
LineX(max_width, hour) == FTrunc(FMulInt(max_width, FDiv(hour, HoursPerDay)))
\* a vertical line of width 10 through x covers the columns x - 4 .. x + 5
LineColumns(max_width) ==
    LET xs == {LineX(max_width, RefHours[k]) : k \in 1..Len(RefHours)} IN
    {x \in 0..(max_width - 1) : \E lx \in xs :
        /\ x >= lx - ((LineWidth - 1) \div 2)
        /\ x <= lx + (LineWidth \div 2)}
DrawLines(cv) ==
    LET band == LineColumns(cv.w) IN
    Raster(cv.w, cv.h,
        LAMBDA x, y : IF x \in band THEN White ELSE PixelAt(cv, x, y))

\* one month of the loop: resize, canvas, paste, lines
StackMonth(fps) ==
    LET images == [i \in 1..Len(fps) |-> ResizedKeo(fps[i])]
        max_width == SetMax({images[i].w : i \in 1..Len(images)})
        total_height == SumOver([i \in 1..Len(images) |-> images[i].h], 1..Len(images))
    IN  DrawLines(PasteDown(Blank2D(max_width, total_height), images, 1, 0))

\* groups.setdefault(ym, []).append(fp) over the dated files of file_paths
MonthsOf(paths) == {paths[i].ym : i \in 1..Len(paths)}
GroupOf(paths, ym) == SelectSeq(paths, LAMBDA f : f.ym = ym)
DatedOnly(paths) == SelectSeq(paths, LAMBDA f : f.kind = "dated")

SK_NoFiles ==
    /\ script = "stack_keograms" /\ pc = "sk_glob"
    /\ folder = {}
    /\ log' = Append(log, "No files found for pattern")
    /\ pc' = "returned"
    /\ UNCHANGED <<script, saved, stackVars, nonStack>>

\* sorted(glob.glob(...)) and the grouping loop
SK_Group ==
    /\ script = "stack_keograms" /\ pc = "sk_glob"
    /\ folder # {}
    /\ file_paths' = SortNames(folder)
    /\ groups' = [ym \in MonthsOf(DatedOnly(SortNames(folder))) |->
                    GroupOf(DatedOnly(SortNames(folder)), ym)]
    /\ pc' = "sk_months"
    /\ UNCHANGED <<script, log, saved, folder, stacks, nonStack>>

\* the next month of sorted(groups.keys())
MonthsLeft == DOMAIN groups \ {stacks[i].ym : i \in 1..Len(stacks)}

SK_Month ==
    /\ script = "stack_keograms" /\ pc = "sk_months"
    /\ MonthsLeft # {}
    /\ LET ym == SetMin(MonthsLeft)
           fps == SortNames(Range(groups[ym]))
       IN  stacks' = Append(stacks, [ym |-> ym, fps |-> fps, img |-> StackMonth(fps)])
    /\ log' = Append(log, "Saved stacked image")
    /\ UNCHANGED <<script, pc, saved, folder, file_paths, groups, nonStack>>

SK_Done ==
    /\ script = "stack_keograms" /\ pc = "sk_months"
    /\ MonthsLeft = {}
    /\ pc' = "done"
    /\ UNCHANGED <<script, log, saved, stackVars, nonStack>>

NextStack == SK_NoFiles \/ SK_Group \/ SK_Month \/ SK_Done

\* ---------------------------------------------------------------------------
\* composite_png.py
\* ---------------------------------------------------------------------------
\* A file of BASE_DIR: kind "frame" is a name PFRR_<date>_<time>_<wave>.png
\* whose digits are a date and time, kind "baddate" one whose digits are not,
\* kind "nomatch" any other .png; t is the time of the name in seconds and
\* img = [shape, px] the greyscale pixels in row-major order
TIME_TOLERANCE_SECONDS == 20
FullScale == 255
WAVES_TO_RGB_Swapped == [w \in {"0630", "0558", "0428"} |->
    IF w = "0630" THEN "B" ELSE IF w = "0558" THEN "G" ELSE "R"]
WAVES_TO_RGB == [w \in {"0630", "0558", "0428"} |->
    IF w = "0630" THEN "R" ELSE IF w = "0558" THEN "G" ELSE "B"]
RequiredWaves == DOMAIN WAVES_TO_RGB
CenterWave == "0558"
OtherWaves == <<"0428", "0630">>
Abs(n) == IF n < 0 THEN 0 - n ELSE n

\* by_wave[wave].sort(key=time) of the frames of one wave
RECURSIVE SortByTime(_)
SortByTime(S) ==
    IF S = {} THEN << >>
    ELSE LET m == CHOOSE a \in S : \A b \in S : a.t <= b.t
         IN  <<m>> \o SortByTime(S \ {m})
FramesOf(files, wave) == {f \in files : f.kind = "frame" /\ f.wave = wave}
parse_files(files) ==
    [w \in {v \in RequiredWaves : FramesOf(files, v) # {}} |-> SortByTime(FramesOf(files, w))]

\* the linear scan: a later record replaces the best only when strictly nearer
RECURSIVE NearestFrom(_, _, _, _)
NearestFrom(target_time, records, i, best) ==
    IF i > Len(records) THEN best
    ELSE NearestFrom(target_time, records, i + 1,
            IF Abs(records[i].t - target_time) < Abs(best.t - target_time)
            THEN records[i] ELSE best)
find_nearest(target_time, records) == NearestFrom(target_time, records, 2, records[1])

TooFarInclusive(diff) == diff >= TIME_TOLERANCE_SECONDS
\* if diff > TIME_TOLERANCE_SECONDS
TooFar(diff) == diff > TIME_TOLERANCE_SECONDS

\* normalize, then clip to [0, 1], times 255, astype(uint8), of one pixel
Scale255(v, vmin, vmax) ==
    IF vmax <= vmin THEN 0
    ELSE FTrunc(FMulInt(FullScale, FDiv(v - vmin, vmax - vmin)))
Normalized255(img) ==
    LET vmin == SetMin(Range(img.px))
        vmax == SetMax(Range(img.px))
    IN  [i \in 1..Len(img.px) |-> Scale255(img.px[i], vmin, vmax)]

\* the waves of triplet_paths in insertion order
TripletWaves == [i \in 1..Len(triplet_paths) |-> triplet_paths[i].wave]
TripletOf(wave) == (CHOOSE i \in 1..Len(triplet_paths) : triplet_paths[i].wave = wave)
\* some image of the load loop differs in shape from the first one
ShapeMismatchFirstPair ==
    triplet_paths[2].img.shape # triplet_paths[1].img.shape
ShapeMismatch ==
    \E i \in 2..Len(triplet_paths) : triplet_paths[i].img.shape # triplet_paths[1].img.shape
ChannelOf(ch) ==
    Normalized255(triplet_paths[TripletOf(CHOOSE w \in RequiredWaves : WAVES_TO_RGB[w] = ch)].img)

CP_ParseRaise ==
    /\ script = "composite_png" /\ pc = "cp_parse"
    /\ \E f \in base_dir : f.kind = "baddate" /\ f.wave \in RequiredWaves
    /\ pc' = "raised"
    /\ UNCHANGED <<script, log, saved, compVars, nonComp>>

CP_MissingWave ==
    /\ script = "composite_png" /\ pc = "cp_parse"
    /\ ~\E f \in base_dir : f.kind = "baddate" /\ f.wave \in RequiredWaves
    /\ ~(RequiredWaves \subseteq DOMAIN parse_files(base_dir))
    /\ by_wave' = parse_files(base_dir)
    /\ log' = Append(log, "Not all required wavelengths are present")
    /\ pc' = "returned"
    /\ UNCHANGED <<script, saved, base_dir, center_time, triplet_paths, written, nonComp>>

\* the first 0558 frame becomes the centre of the triplet
CP_Center ==
    /\ script = "composite_png" /\ pc = "cp_parse"
    /\ ~\E f \in base_dir : f.kind = "baddate" /\ f.wave \in RequiredWaves
    /\ RequiredWaves \subseteq DOMAIN parse_files(base_dir)
    /\ by_wave' = parse_files(base_dir)
    /\ center_time' = parse_files(base_dir)[CenterWave][1].t
    /\ triplet_paths' = <<parse_files(base_dir)[CenterWave][1]>>
    /\ pc' = "cp_nearest"
    /\ UNCHANGED <<script, log, saved, base_dir, written, nonComp>>

NextWave == OtherWaves[Len(triplet_paths)]
NearestNext == find_nearest(center_time, by_wave[NextWave])

CP_NearestFar ==
    /\ script = "composite_png" /\ pc = "cp_nearest"
    /\ Len(triplet_paths) <= Len(OtherWaves)
    /\ TooFar(Abs(NearestNext.t - center_time))
    /\ log' = Append(log, "not building a triplet")
    /\ pc' = "returned"
    /\ UNCHANGED <<script, saved, compVars, nonComp>>

CP_NearestOk ==
    /\ script = "composite_png" /\ pc = "cp_nearest"
    /\ Len(triplet_paths) <= Len(OtherWaves)
    /\ ~TooFar(Abs(NearestNext.t - center_time))
    /\ triplet_paths' = Append(triplet_paths, NearestNext)
    /\ UNCHANGED <<script, pc, log, saved, base_dir, by_wave, center_time, written, nonComp>>

CP_ShapeMismatch ==
    /\ script = "composite_png" /\ pc = "cp_nearest"
    /\ Len(triplet_paths) > Len(OtherWaves)
    /\ ShapeMismatch
    /\ pc' = "raised"
    /\ UNCHANGED <<script, log, saved, compVars, nonComp>>

\* load and normalize the three images, fill the channels, save
CP_Compose ==
    /\ script = "composite_png" /\ pc = "cp_nearest"
    /\ Len(triplet_paths) > Len(OtherWaves)
    /\ ~ShapeMismatch
    /\ written' = Append(written,
            [stem |-> center_time, shape |-> triplet_paths[1].img.shape,
             R |-> ChannelOf("R"), G |-> ChannelOf("G"), B |-> ChannelOf("B")])
    /\ pc' = "done"
    /\ UNCHANGED <<script, log, saved, base_dir, by_wave, center_time, triplet_paths, nonComp>>

NextComposite ==
    \/ CP_ParseRaise \/ CP_MissingWave \/ CP_Center
    \/ CP_NearestFar \/ CP_NearestOk \/ CP_ShapeMismatch \/ CP_Compose

\* ---------------------------------------------------------------------------
\* The runs of the stacking and compositing scripts
\* ---------------------------------------------------------------------------
MaxStackFiles == 3
MaxStackH == 3
NativeWidths == {1, 25}
StackNames ==
    [kind : {"dated"}, ym : {1, 2}, day : {1, 2}, tail : {0}]
    \cup {[kind |-> "dated", ym |-> 1, day |-> 1, tail |-> 1],
          [kind |-> "undated", ym |-> 9, day |-> 9, tail |-> 0]}
Sized(name, w, h) ==
    [kind |-> name.kind, ym |-> name.ym, day |-> name.day, tail |-> name.tail,
     w |-> w, h |-> h]
StackUnset ==
    /\ folder = {} /\ file_paths = << >> /\ groups = << >> /\ stacks = << >>

MaxFrames == 2
MaxGrey == 3
PixelVals == {0, 1, MaxGrey}
Shapes == {<<1, 1>>, <<1, 2>>, <<2, 1>>, <<1, 3>>}
\* one image per shape, and every image of the shape 1 x 3
ShapedImages ==
    {[shape |-> sh, px |-> [i \in 1..(sh[1] * sh[2]) |-> IF i = 1 THEN 0 ELSE MaxGrey]] :
        sh \in Shapes}
GreyImages == [shape : {<<1, 3>>}, px : [1..3 -> PixelVals]]
NominalGrey == [shape |-> <<1, 2>>, px |-> <<0, MaxGrey>>]
CenterTimes == {100, 130}
NearTimes ==
    {100 - (TIME_TOLERANCE_SECONDS + 1), 100 - TIME_TOLERANCE_SECONDS, 100,
     100 + TIME_TOLERANCE_SECONDS, 100 + TIME_TOLERANCE_SECONDS + 1}
Frame(wave, t, img) == [kind |-> "frame", wave |-> wave, t |-> t, img |-> img]
FramesAt(wave, times) == {Frame(wave, t, NominalGrey) : t \in times}
UpTo(S, n) == {T \in SUBSET S : Cardinality(T) <= n}
Strays ==
    {[kind |-> "nomatch", wave |-> "0558", t |-> 100, img |-> NominalGrey],
     [kind |-> "frame", wave |-> "0777", t |-> 100, img |-> NominalGrey],
     [kind |-> "baddate", wave |-> "0777", t |-> 100, img |-> NominalGrey],
     [kind |-> "baddate", wave |-> "0558", t |-> 100, img |-> NominalGrey]}
CompUnset ==
    /\ base_dir = {} /\ by_wave = << >> /\ center_time = 0
    /\ triplet_paths = << >> /\ written = << >>

\* ---------------------------------------------------------------------------
\* The runs of the stitching scripts
\* ---------------------------------------------------------------------------
MaxHrefs == 3
MaxSliceW == 2
MaxSliceH == 2
MaxListing == 3
HrefHours == {8, 9, 10, MaxHrefHour}
RemoteHours == {8, 9, 10}
AnswerSet == {Blank, NotANumber} \cup {Typed(k) : k \in 8..11}
NominalHrefs == <<9, 8, 10>>
NominalAnswers == <<Typed(8), Typed(11)>>
NominalRemote ==
    [h \in RemoteHours |-> [found |-> TRUE, fetch |-> "ok", w |-> MaxSliceW, h |-> MaxSliceH]]
RemoteStates ==
    {[found |-> FALSE, fetch |-> "404", w |-> MaxSliceW, h |-> MaxSliceH]}
    \cup [found : {TRUE}, fetch : {"404", "error"}, w : {MaxSliceW}, h : {MaxSliceH}]
    \cup [found : {TRUE}, fetch : {"ok"}, w : 1..MaxSliceW, h : 1..MaxSliceH]
SeqsUpTo(S, n) == UNION {[1..k -> S] : k \in 0..n}
Injective(seq) == \A i, j \in 1..Len(seq) : i # j => seq[i] # seq[j]

ListingNames ==
    [kind : {"slice"}, date : {1, 2}, hour : {8, 9}, tail : {0, 1},
     w : {MaxSliceW}, h : {MaxSliceH}]
    \cup [kind : {"other", "nonpng"}, date : {1}, hour : {8}, tail : {0},
          w : {MaxSliceW}, h : {MaxSliceH}]
SizedSlice(hour, w, h) ==
    [kind |-> "slice", date |-> 1, hour |-> hour, tail |-> 0, w |-> w, h |-> h]

DownloadUnset ==
    /\ date_ok = TRUE /\ hrefs = << >> /\ answers = <<Blank, Blank>>
    /\ remote = NominalRemote /\ dry_run = FALSE /\ keep_segments = FALSE
DownloadStart ==
    /\ avail = << >> /\ hs = 0 /\ he = 0 /\ targets = << >> /\ dl_i = 1
    /\ got = << >> /\ canvas = NoImage /\ exit_code = Running /\ disk = NoDisk
    /\ requests_sent = 0 /\ fetch_calls = 0
CombineUnset ==
    /\ listing = << >> /\ cb_i = 1 /\ keogram_groups = << >> /\ combined = << >>
StitchUnset == DownloadUnset /\ DownloadStart /\ CombineUnset

\* ---------------------------------------------------------------------------
\* download_goes.py and download_keograms.py: a date range, one unit per day
\* ---------------------------------------------------------------------------
\* everything the two range downloaders leave alone
nonRange == <<saved, envVars, overlayVars, partialVars, runVars, dlEnvVars, dlVars,
              dlLoopVars, combineVars, cbLoopVars, stackVars, compVars>>

\* date.fromisoformat raises ValueError on a malformed argument (traceback,
\* status 1); raise SystemExit("End date must be >= start date") is status 1
ArgKinds == {"ok", "malformed", "end_before_start"}

\* download_goes.py: the (day, idx, fname) triples the loop over the months
\* collects, as <<month, day>>: the days with a file, of the months whose
\* index answered 200
RECURSIVE Discover(_, _)
Discover(months, m) ==
    IF m > Len(months) THEN << >>
    ELSE LET days == months[m].days
             all == [d \in 1..Len(days) |-> <<m, d>>]
             here == IF months[m].index = "ok"
                     THEN SelectSeq(all, LAMBDA u : days[u[2]].file)
                     ELSE << >>
         IN  here \o Discover(months, m + 1)

\* what that loop prints: one line per failed index, one per day without file
RECURSIVE DiscoverLog(_, _)
DiscoverLog(months, m) ==
    IF m > Len(months) THEN << >>
    ELSE LET days == months[m].days
             all == [d \in 1..Len(days) |-> d]
             here == IF months[m].index = "http" THEN <<"! HTTP">>
                     ELSE IF months[m].index = "exc" THEN <<"! error fetching">>
                     ELSE [k \in 1..Len(SelectSeq(all, LAMBDA d : ~days[d].file))
                              |-> "no file found"]
         IN  here \o DiscoverLog(months, m + 1)

DG_BadArgs ==
    /\ script = "download_goes" /\ pc = "dg_start"
    /\ dg_args # "ok"
    /\ dg_exit' = 1
    /\ pc' = "exited"
    /\ UNCHANGED <<script, log, dg_args, dg_months, dg_dry_run, discovered, dg_i,
                   downloaded, dg_disk, dkVars, netVars, nonRange>>

\* one requests.get per month index
DG_Discover ==
    /\ script = "download_goes" /\ pc = "dg_start"
    /\ dg_args = "ok"
    /\ requests_sent' = requests_sent + Len(dg_months)
    /\ discovered' = Discover(dg_months, 1)
    /\ log' = log \o DiscoverLog(dg_months, 1)
    /\ pc' = "dg_found"
    /\ UNCHANGED <<script, dg_args, dg_months, dg_dry_run, dg_i, downloaded, dg_disk,
                   dg_exit, dkVars, fetch_calls, nonRange>>

\* "No files matched the requested range." and a plain return
DG_NoneFound ==
    /\ script = "download_goes" /\ pc = "dg_found"
    /\ discovered = << >>
    /\ log' = Append(log, "No files matched")
    /\ dg_exit' = 0
    /\ pc' = "returned"
    /\ UNCHANGED <<script, dg_args, dg_months, dg_dry_run, discovered, dg_i,
                   downloaded, dg_disk, dkVars, netVars, nonRange>>

\* a --dry-run that goes on to the download loop
DG_DryRunFetches ==
    /\ script = "download_goes" /\ pc = "dg_found"
    /\ discovered # << >> /\ dg_dry_run
    /\ log' = Append(log, "Found") \o [k \in 1..Len(discovered) |-> "url"]
    /\ pc' = "dg_fetch"
    /\ UNCHANGED <<script, dg_args, dg_months, dg_dry_run, discovered, dg_i,
                   downloaded, dg_disk, dg_exit, dkVars, netVars, nonRange>>

DG_DryRun ==
    /\ script = "download_goes" /\ pc = "dg_found"
    /\ discovered # << >> /\ dg_dry_run
    /\ log' = Append(log, "Found") \o [k \in 1..Len(discovered) |-> "url"]
    /\ dg_exit' = 0
    /\ pc' = "returned"
    /\ UNCHANGED <<script, dg_args, dg_months, dg_dry_run, discovered, dg_i,
                   downloaded, dg_disk, dkVars, netVars, nonRange>>

DG_Found ==
    /\ script = "download_goes" /\ pc = "dg_found"
    /\ discovered # << >> /\ ~dg_dry_run
    /\ log' = Append(log, "Found")
    /\ pc' = "dg_fetch"
    /\ UNCHANGED <<script, dg_args, dg_months, dg_dry_run, discovered, dg_i,
                   downloaded, dg_disk, dg_exit, dkVars, netVars, nonRange>>

DgUnit == discovered[dg_i]
DgDay == dg_months[DgUnit[1]].days[DgUnit[2]]

DG_FetchOk ==
    /\ script = "download_goes" /\ pc = "dg_fetch"
    /\ dg_i <= Len(discovered)
    /\ DgDay.fetch = "ok"
    /\ fetch_calls' = fetch_calls + 1
    /\ requests_sent' = requests_sent + 1
    /\ dg_disk' = dg_disk \cup {[unit |-> DgUnit, whole |-> TRUE]}
    /\ log' = Append(log, "downloaded")
    /\ downloaded' = downloaded + 1
    /\ dg_i' = dg_i + 1
    /\ UNCHANGED <<script, pc, dg_args, dg_months, dg_dry_run, discovered,
                   dg_exit, dkVars, nonRange>>

\* smart_fetch raises (check=True, raise_for_status, a broken stream); the
\* loop prints and goes on.  What the tool had written by then stays.
DG_FetchFail ==
    /\ script = "download_goes" /\ pc = "dg_fetch"
    /\ dg_i <= Len(discovered)
    /\ DgDay.fetch = "fail"
    /\ fetch_calls' = fetch_calls + 1
    /\ requests_sent' = requests_sent + 1
    /\ \E left \in BOOLEAN :
        dg_disk' = IF left THEN dg_disk \cup {[unit |-> DgUnit, whole |-> FALSE]}
                   ELSE dg_disk
    /\ log' = Append(log, "! failed")
    /\ dg_i' = dg_i + 1
    /\ UNCHANGED <<script, pc, dg_args, dg_months, dg_dry_run, discovered, downloaded,
                   dg_exit, dkVars, nonRange>>

DG_Done ==
    /\ script = "download_goes" /\ pc = "dg_fetch"
    /\ dg_i > Len(discovered)
    /\ log' = Append(log, "Done")
    /\ dg_exit' = 0
    /\ pc' = "done"
    /\ UNCHANGED <<script, dg_args, dg_months, dg_dry_run, discovered, dg_i,
                   downloaded, dg_disk, dkVars, netVars, nonRange>>

NextGoes ==
    \/ DG_BadArgs \/ DG_Discover \/ DG_NoneFound \/ DG_DryRun \/ DG_Found
    \/ DG_FetchOk \/ DG_FetchFail \/ DG_Done

\* download_keograms.py smart_fetch(url, dst): what is printed for the day
\* and what is at dst afterwards, by tool and by what the server does.
\*   wget -nv -c -O dst: the output file is opened before the request, so a
\*     failed fetch leaves an empty or partial file; any failure is "[fail]"
\*   curl -L -C - -o dst, without --fail: a 404 page is saved as the file and
\*     curl returns 0, "[done]"; with a file already there the resume may fail
\*   requests: 404 raises FileNotFoundError before dst is opened, "[404 ]";
\*     a stream that breaks after open(dst, "wb") leaves a partial file
FetchOutcomes(tool, rem, file) ==
    IF rem = "ok" THEN {[result |-> "done", file |-> "new"]}
    ELSE IF rem = "404" THEN
        IF tool = "wget"
        THEN {[result |-> "fail", file |-> IF file = "none" THEN "junk" ELSE file]}
        ELSE IF tool = "curl"
        THEN {[result |-> "done", file |-> "junk"]}
             \cup (IF file = "none" THEN {} ELSE {[result |-> "fail", file |-> file]})
        ELSE {[result |-> "404", file |-> file]}
    ELSE {[result |-> "fail", file |-> "junk"]}
         \cup (IF tool = "wget" /\ file = "none" THEN {}
               ELSE {[result |-> "fail", file |-> file]})

DK_BadArgs ==
    /\ script = "download_keograms" /\ pc = "dk_start"
    /\ dk_args # "ok"
    /\ dk_exit' = 1
    /\ pc' = "exited"
    /\ UNCHANGED <<script, log, dk_args, dk_days, dk_tool, skip_existing, dk_dry_run,
                   to_get, dk_i, ok, miss, err, dk_disk, dgVars, netVars, nonRange>>

DK_DryRun ==
    /\ script = "download_keograms" /\ pc = "dk_start"
    /\ dk_args = "ok" /\ dk_dry_run
    /\ to_get' = [i \in 1..Len(dk_days) |-> i]
    /\ log' = [i \in 1..Len(dk_days) |-> "url"]
    /\ dk_exit' = 0
    /\ pc' = "returned"
    /\ UNCHANGED <<script, dk_args, dk_days, dk_tool, skip_existing, dk_dry_run,
                   dk_i, ok, miss, err, dk_disk, dgVars, netVars, nonRange>>

DK_Plan ==
    /\ script = "download_keograms" /\ pc = "dk_start"
    /\ dk_args = "ok" /\ ~dk_dry_run
    /\ to_get' = [i \in 1..Len(dk_days) |-> i]
    /\ pc' = "dk_loop"
    /\ UNCHANGED <<script, log, dk_args, dk_days, dk_tool, skip_existing, dk_dry_run,
                   dk_i, ok, miss, err, dk_disk, dk_exit, dgVars, netVars, nonRange>>

DkDay == to_get[dk_i]

\* --skip-existing and os.path.exists(dst)
DK_Skip ==
    /\ script = "download_keograms" /\ pc = "dk_loop"
    /\ dk_i <= Len(to_get)
    /\ skip_existing /\ dk_disk[DkDay] # "none"
    /\ log' = Append(log, "[skip]")
    /\ ok' = ok + 1
    /\ dk_i' = dk_i + 1
    /\ UNCHANGED <<script, pc, dk_args, dk_days, dk_tool, skip_existing, dk_dry_run,
                   to_get, miss, err, dk_disk, dk_exit, dgVars, netVars, nonRange>>

Fetching ==
    /\ script = "download_keograms" /\ pc = "dk_loop"
    /\ dk_i <= Len(to_get)
    /\ ~(skip_existing /\ dk_disk[DkDay] # "none")
    /\ fetch_calls' = fetch_calls + 1
    /\ requests_sent' = requests_sent + 1
    /\ dk_i' = dk_i + 1

DK_FetchDone ==
    /\ Fetching
    /\ \E o \in FetchOutcomes(dk_tool, dk_days[DkDay].remote, dk_disk[DkDay]) :
        /\ o.result = "done"
        /\ dk_disk' = [dk_disk EXCEPT ![DkDay] = o.file]
    /\ log' = Append(log, "[done]")
    /\ ok' = ok + 1
    /\ UNCHANGED <<script, pc, dk_args, dk_days, dk_tool, skip_existing, dk_dry_run,
                   to_get, miss, err, dk_exit, dgVars, nonRange>>

DK_Fetch404 ==
    /\ Fetching
    /\ \E o \in FetchOutcomes(dk_tool, dk_days[DkDay].remote, dk_disk[DkDay]) :
        /\ o.result = "404"
        /\ dk_disk' = [dk_disk EXCEPT ![DkDay] = o.file]
    /\ log' = Append(log, "[404 ]")
    /\ miss' = miss + 1
    /\ UNCHANGED <<script, pc, dk_args, dk_days, dk_tool, skip_existing, dk_dry_run,
                   to_get, ok, err, dk_exit, dgVars, nonRange>>

DK_FetchFail ==
    /\ Fetching
    /\ \E o \in FetchOutcomes(dk_tool, dk_days[DkDay].remote, dk_disk[DkDay]) :
        /\ o.result = "fail"
        /\ dk_disk' = [dk_disk EXCEPT ![DkDay] = o.file]
    /\ log' = Append(log, "[fail]")
    /\ err' = err + 1
    /\ UNCHANGED <<script, pc, dk_args, dk_days, dk_tool, skip_existing, dk_dry_run,
                   to_get, ok, miss, dk_exit, dgVars, nonRange>>

\* the summary line, and main returns
DK_Summary ==
    /\ script = "download_keograms" /\ pc = "dk_loop"
    /\ dk_i > Len(to_get)
    /\ log' = Append(log, "Summary")
    /\ dk_exit' = 0
    /\ pc' = "done"
    /\ UNCHANGED <<script, dk_args, dk_days, dk_tool, skip_existing, dk_dry_run,
                   to_get, dk_i, ok, miss, err, dk_disk, dgVars, netVars, nonRange>>

NextKeograms ==
    \/ DK_BadArgs \/ DK_DryRun \/ DK_Plan \/ DK_Skip
    \/ DK_FetchDone \/ DK_Fetch404 \/ DK_FetchFail \/ DK_Summary

GoesUnset ==
    /\ dg_args = "ok" /\ dg_months = << >> /\ dg_dry_run = FALSE
    /\ discovered = << >> /\ dg_i = 1 /\ downloaded = 0 /\ dg_disk = {}
    /\ dg_exit = Running
KeogramsUnset ==
    /\ dk_args = "ok" /\ dk_days = << >> /\ dk_tool = "wget"
    /\ skip_existing = FALSE /\ dk_dry_run = FALSE
    /\ to_get = << >> /\ dk_i = 1 /\ ok = 0 /\ miss = 0 /\ err = 0
    /\ dk_disk = << >> /\ dk_exit = Running
RangeUnset == GoesUnset /\ KeogramsUnset

\* the scripts a run does not execute
OthersIdle == StitchUnset /\ StackUnset /\ CompUnset /\ RangeUnset

\* ---------------------------------------------------------------------------
\* Initial states of the overlay scripts: the files on disk and the day page.
\* ---------------------------------------------------------------------------
\* how reading a file that is there fails: while decompressing it, when the
\* dataset is opened, or for a variable it lacks
GoesFaults == {"open", "vars"}
DscovrFaults == {"gunzip", "open", "vars"}

DataFiles(series, faults) ==
    {[found |-> FALSE, ok |-> FALSE, fault |-> "none", samples |-> << >>]}
    \cup {[found |-> TRUE, ok |-> FALSE, fault |-> f, samples |-> << >>] : f \in faults}
    \cup {[found |-> TRUE, ok |-> TRUE, fault |-> "none", samples |-> s] : s \in series}

NominalData == [found |-> TRUE, ok |-> TRUE, fault |-> "none", samples |-> NominalSeries]
AbsentData  == [found |-> FALSE, ok |-> FALSE, fault |-> "none", samples |-> << >>]
NominalPage == [ok |-> TRUE, hours |-> {8, 11}]
NominalKeo  == [W |-> NominalWidth, win |-> HourPart(8, 12)]

Pages ==
    {[ok |-> FALSE, hours |-> {}]}
    \cup {[ok |-> TRUE, hours |-> {a, b}] : a, b \in 0..MaxHrefHour}
    \cup {[ok |-> TRUE, hours |-> {}]}

EnvUnset ==
    /\ mode = "full" /\ keo_paths = << >> /\ page = NominalPage
    /\ goes_file = AbsentData /\ dscovr_file = AbsentData

StartCommon ==
    /\ log = << >> /\ saved = << >>
    /\ OverlayUnset /\ PartialUnset /\ RunUnset /\ OthersIdle

\* overlay.py, full mode, every image width and every day page
InitCrop ==
    /\ script = "overlay" /\ pc = "pd_find_keo"
    /\ mode = "full"
    /\ \E width \in 1..MaxWidth : keo_paths = << [W |-> width, win |-> << >>] >>
    /\ page \in Pages
    /\ goes_file = AbsentData /\ dscovr_file = AbsentData
    /\ StartCommon

\* overlay.py, both modes: one input varied at a time around the nominal day
InitOverlay ==
    /\ script = "overlay" /\ pc = "pd_find_keo"
    /\ mode \in {"full", "partial"}
    /\ \/ /\ keo_paths \in {<< >>, <<NominalKeo>>,
                            << [W |-> NominalWidth, win |-> << >>] >>,
                            << [W |-> NominalWidth, win |-> HourPart(12, 8)] >>,
                            << [W |-> NominalWidth, win |-> HourPart(1, 17)] >>,
                            << [W |-> NominalWidth, win |-> <<Digits(9), Digits(11)>>] >>}
          /\ page \in {NominalPage, [ok |-> FALSE, hours |-> {}],
                       [ok |-> TRUE, hours |-> {MaxHrefHour}]}
          /\ goes_file = NominalData /\ dscovr_file = NominalData
       \/ /\ keo_paths = <<NominalKeo>> /\ page = NominalPage
          /\ goes_file \in DataFiles(SeriesUpTo(MaxSamples), GoesFaults)
          /\ dscovr_file = NominalData
       \/ /\ keo_paths = <<NominalKeo>> /\ page = NominalPage
          /\ goes_file = NominalData
          /\ dscovr_file \in DataFiles(SeriesUpTo(MaxSamples), DscovrFaults)
    /\ StartCommon

MaxFiles == 2
KeoNames ==
    {NominalKeo, [W |-> NominalWidth, win |-> << >>],
     [W |-> NominalWidth, win |-> HourPart(12, 8)],
     [W |-> NominalWidth, win |-> HourPart(8, 8)],
     [W |-> NominalWidth, win |-> <<Digits(9), Digits(11)>>]}

\* overlay_partial.py and the fixed-date variant: the directory listing, or one
\* data file, varied around the nominal day
InitPartial ==
    /\ script \in PartialScripts /\ pc = "loop"
    /\ mode = "partial" /\ page = NominalPage
    /\ \/ /\ keo_paths \in UNION {[1..k -> KeoNames] : k \in 0..MaxFiles}
          /\ goes_file = NominalData /\ dscovr_file = NominalData
       \/ /\ keo_paths = <<NominalKeo>>
          /\ goes_file \in DataFiles(SeriesUpTo(MaxSamples), GoesFaults)
          /\ dscovr_file = NominalData
       \/ /\ keo_paths = <<NominalKeo>>
          /\ goes_file = NominalData
          /\ dscovr_file \in DataFiles(SeriesUpTo(MaxSamples), DscovrFaults)
       \/ /\ keo_paths = <<NominalKeo, NominalKeo>>
          /\ goes_file \in DataFiles({<< >>, NominalSeries}, GoesFaults)
          /\ dscovr_file \in DataFiles({<< >>, NominalSeries}, DscovrFaults)
    /\ log = << >> /\ saved = << >>
    /\ OverlayUnset
    /\ todo = keo_paths /\ start_hour = 0 /\ end_hour = 0
    /\ go_df = EmptyFrame /\ win_go = EmptyFrame
    /\ ace_df = EmptyFrame /\ win_ace = EmptyFrame /\ ace_h = FALSE
    /\ RunUnset
    /\ OthersIdle

\* ---------------------------------------------------------------------------
\* overlay.py as a whole: the import, the three prompts and the loop over the
\* dates of the range.  The first date's files are the ones varied; every
\* later date is a nominal day.
\* ---------------------------------------------------------------------------
MaxLaterDates == 2
OvInputs == {"ok", "bad_mode", "bad_date", "end_before_start"}

\* lines 19-20 run when the module is loaded: mkdir(parents=True,
\* exist_ok=True) creates each output root that is not there yet
OV_Import ==
    /\ script = "overlay" /\ pc = "ov_import"
    /\ \E absent \in BOOLEAN : dirs_made' = absent
    /\ pc' = "ov_prompt"
    /\ UNCHANGED <<script, log, saved, envVars, overlayVars, partialVars,
                   drawn, tmp_files, dates_left, ov_input, ov_exit, nonOverlay>>

OV_BadInput ==
    /\ script = "overlay" /\ pc = "ov_prompt"
    /\ ov_input # "ok"
    /\ log' = Append(log, IF ov_input = "bad_mode" THEN "Please enter" ELSE "ERR")
    /\ ov_exit' = 1
    /\ pc' = "exited"
    /\ UNCHANGED <<script, saved, envVars, overlayVars, partialVars,
                   drawn, tmp_files, dates_left, ov_input, dirs_made, nonOverlay>>

\* cur = d0; d0 <= d1 holds, so the loop body runs at least once
OV_Begin ==
    /\ script = "overlay" /\ pc = "ov_prompt"
    /\ ov_input = "ok"
    /\ pc' = "pd_find_keo"
    /\ UNCHANGED <<script, log, saved, envVars, overlayVars, partialVars,
                   runVars, nonOverlay>>

\* process_date has returned: cur += 1 day, and the next call starts with
\* fresh locals on the next day's files
PD_NextDate ==
    /\ script = "overlay" /\ pc \in {"returned", "done"}
    /\ dates_left > 0
    /\ dates_left' = dates_left - 1
    /\ keo_paths' = <<NominalKeo>> /\ page' = NominalPage
    /\ goes_file' = NominalData /\ dscovr_file' = NominalData
    /\ W' = 0 /\ first_h' = 0 /\ last_h' = 0 /\ x0' = 0 /\ x1' = 0 /\ keo_w' = 0
    /\ gh' = << >> /\ df' = EmptyFrame
    /\ pc' = "pd_find_keo"
    /\ UNCHANGED <<script, log, saved, mode, partialVars,
                   drawn, tmp_files, ov_input, dirs_made, ov_exit, nonOverlay>>

\* cur > d1: the script runs off its end
OV_Finish ==
    /\ script = "overlay" /\ pc \in {"returned", "done"}
    /\ dates_left = 0
    /\ ov_exit' = 0
    /\ pc' = "finished"
    /\ UNCHANGED <<script, log, saved, envVars, overlayVars, partialVars,
                   drawn, tmp_files, dates_left, ov_input, dirs_made, nonOverlay>>

NextOverlayRun ==
    \/ NextOverlay
    \/ OV_Import \/ OV_BadInput \/ OV_Begin \/ PD_NextDate \/ OV_Finish

\* what is typed, the length of the range and the first date's files
InitOverlayRun ==
    /\ script = "overlay" /\ pc = "ov_import"
    /\ mode \in {"full", "partial"}
    /\ ov_input \in OvInputs
    /\ dates_left \in 0..MaxLaterDates
    /\ keo_paths \in {<< >>, <<NominalKeo>>, << [W |-> NominalWidth, win |-> << >>] >>}
    /\ page \in {NominalPage, [ok |-> FALSE, hours |-> {}]}
    /\ goes_file \in DataFiles({<< >>, NominalSeries}, GoesFaults)
    /\ dscovr_file \in DataFiles({<< >>, NominalSeries}, DscovrFaults)
    /\ log = << >> /\ saved = << >>
    /\ OverlayUnset /\ PartialUnset
    /\ drawn = << >> /\ tmp_files = 0 /\ dirs_made = FALSE /\ ov_exit = 0 - 1
    /\ OthersIdle

SpecCrop == (InitCrop \/ InitOverlay) /\ [][NextOverlay]_vars
SpecOverlay == InitOverlay /\ [][NextOverlay]_vars
SpecPartial == InitPartial /\ [][NextPartial]_vars
\* the three overlay scripts
SpecOverlays == (InitOverlay \/ InitPartial) /\ [][NextOverlay \/ NextPartial]_vars
\* whole runs of the three overlay scripts
SpecOverlayRuns ==
    (InitOverlayRun \/ InitPartial) /\ [][NextOverlayRun \/ NextPartial]_vars

\* download_partial_keograms.py: the index page and the prompt answers, or
\* the hour folders and the flags, varied around the nominal day
InitDownload ==
    /\ script = "download_partial_keograms" /\ pc = "dl_start"
    /\ \/ /\ date_ok \in BOOLEAN
          /\ hrefs \in SeqsUpTo(HrefHours, MaxHrefs)
          /\ answers \in AnswerSet \X AnswerSet
          /\ remote = NominalRemote
          /\ dry_run = FALSE /\ keep_segments = FALSE
       \/ /\ date_ok = TRUE
          /\ hrefs = NominalHrefs /\ answers = NominalAnswers
          /\ remote \in [RemoteHours -> RemoteStates]
          /\ dry_run \in BOOLEAN /\ keep_segments \in BOOLEAN
    /\ DownloadStart /\ CombineUnset
    /\ log = << >> /\ saved = << >>
    /\ EnvUnset /\ OverlayUnset /\ PartialUnset /\ RunUnset /\ RangeUnset /\ StackUnset /\ CompUnset

\* combine_partial_keos.py: the names of the directory in every listing
\* order, or the sizes of one day's slices
InitCombine ==
    /\ script = "combine_partial_keos" /\ pc = "cb_list"
    /\ \/ /\ listing \in SeqsUpTo(ListingNames, MaxListing)
          /\ Injective(listing)
       \/ \E k \in 1..MaxListing :
          \E sizes \in [1..k -> (1..MaxSliceW) \X (1..MaxSliceH)] :
            listing = [i \in 1..k |-> SizedSlice(7 + i, sizes[i][1], sizes[i][2])]
    /\ cb_i = 1 /\ keogram_groups = << >> /\ combined = << >>
    /\ DownloadUnset /\ DownloadStart
    /\ log = << >> /\ saved = << >>
    /\ EnvUnset /\ OverlayUnset /\ PartialUnset /\ RunUnset /\ RangeUnset /\ StackUnset /\ CompUnset

\* stack_keograms.py: the names of the folder, or the sizes of one month's
\* images
InitStack ==
    /\ script = "stack_keograms" /\ pc = "sk_glob"
    /\ \/ \E names \in UpTo(StackNames, MaxStackFiles) :
            folder = {Sized(n, 25, 2) : n \in names}
       \/ \E k \in 1..MaxStackFiles :
          \E sizes \in [1..k -> NativeWidths \X (1..MaxStackH)] :
            folder = {Sized([kind |-> "dated", ym |-> 1, day |-> i, tail |-> 0],
                            sizes[i][1], sizes[i][2]) : i \in 1..k}
    /\ file_paths = << >> /\ groups = << >> /\ stacks = << >>
    /\ log = << >> /\ saved = << >>
    /\ EnvUnset /\ OverlayUnset /\ PartialUnset /\ RunUnset /\ RangeUnset /\ StitchUnset /\ CompUnset

\* composite_png.py: the frame times of each wavelength, the stray files, the
\* shapes of the three images, or their pixels
InitComposite ==
    /\ script = "composite_png" /\ pc = "cp_parse"
    /\ \/ \E c \in UpTo(CenterTimes, MaxFrames), b \in UpTo(NearTimes, MaxFrames),
             r \in UpTo(NearTimes, MaxFrames) :
            base_dir = FramesAt("0558", c) \cup FramesAt("0428", b) \cup FramesAt("0630", r)
       \/ \E extra \in SUBSET Strays :
            base_dir = FramesAt("0558", {100}) \cup FramesAt("0428", {100})
                       \cup FramesAt("0630", {100}) \cup extra
       \/ \E g \in ShapedImages, b \in ShapedImages, r \in ShapedImages :
            base_dir = {Frame("0558", 100, g), Frame("0428", 100, b), Frame("0630", 100, r)}
       \/ \E g \in GreyImages, b \in GreyImages, r \in GreyImages :
            base_dir = {Frame("0558", 100, g), Frame("0428", 100, b), Frame("0630", 100, r)}
    /\ by_wave = << >> /\ center_time = 0 /\ triplet_paths = << >> /\ written = << >>
    /\ log = << >> /\ saved = << >>
    /\ EnvUnset /\ OverlayUnset /\ PartialUnset /\ RunUnset /\ RangeUnset /\ StitchUnset /\ StackUnset

\* download_goes.py: the arguments, and the months and days of the range
MaxDays == 2
GoesDays == [file : BOOLEAN, fetch : {"ok", "fail"}]
NominalGoesDay == [file |-> TRUE, fetch |-> "ok"]
IndexStates == {"ok", "http", "exc"}
InitGoes ==
    /\ script = "download_goes" /\ pc = "dg_start"
    /\ dg_args \in ArgKinds /\ dg_dry_run \in BOOLEAN
    /\ \/ \E x \in IndexStates, ds \in SeqsUpTo(GoesDays, MaxDays) \ {<< >>} :
            dg_months = << [index |-> x, days |-> ds] >>
       \/ \E x, y \in IndexStates, d1, d2 \in GoesDays :
            dg_months = << [index |-> x, days |-> <<d1>>],
                           [index |-> y, days |-> <<d2>>] >>
    /\ discovered = << >> /\ dg_i = 1 /\ downloaded = 0 /\ dg_disk = {}
    /\ dg_exit = Running
    /\ KeogramsUnset
    /\ log = << >> /\ saved = << >>
    /\ EnvUnset /\ OverlayUnset /\ PartialUnset /\ RunUnset
    /\ StitchUnset /\ StackUnset /\ CompUnset

\* download_keograms.py: the arguments, the flags, the tool found, and per
\* day what the server does and whether the destination file is there already
KeogramDays == [remote : {"ok", "404", "error"}, exists : BOOLEAN]
InitKeograms ==
    /\ script = "download_keograms" /\ pc = "dk_start"
    /\ dk_args \in ArgKinds
    /\ dk_tool \in {"wget", "curl", "requests"}
    /\ skip_existing \in BOOLEAN /\ dk_dry_run \in BOOLEAN
    /\ dk_days \in SeqsUpTo(KeogramDays, MaxDays) \ {<< >>}
    /\ dk_disk = [i \in 1..Len(dk_days) |-> IF dk_days[i].exists THEN "old" ELSE "none"]
    /\ to_get = << >> /\ dk_i = 1 /\ ok = 0 /\ miss = 0 /\ err = 0
    /\ dk_exit = Running
    /\ GoesUnset
    /\ log = << >> /\ saved = << >>
    /\ EnvUnset /\ OverlayUnset /\ PartialUnset /\ RunUnset
    /\ StitchUnset /\ StackUnset /\ CompUnset

\* the three download scripts
SpecDownloads ==
    (InitDownload \/ InitGoes \/ InitKeograms)
        /\ [][NextDownload \/ NextGoes \/ NextKeograms]_vars
\* every script that asks for or is given dates or hours
SpecInputs ==
    (InitOverlayRun \/ InitDownload \/ InitGoes \/ InitKeograms)
        /\ [][NextOverlayRun \/ NextDownload \/ NextGoes \/ NextKeograms]_vars

SpecStack == InitStack /\ [][NextStack]_vars
SpecComposite == InitComposite /\ [][NextComposite]_vars

SpecStitch == (InitDownload \/ InitCombine) /\ [][NextStitch]_vars

\* ---------------------------------------------------------------------------
\* Properties of the crop of overlay.py (full mode).
\* ---------------------------------------------------------------------------
Cropped == script = "overlay" /\ mode = "full" /\ pc \notin {"pd_find_keo"} /\ W >= 1

\* C1: for every width W >= 1 and every window scrape_time_bounds returns, the
\* crop columns are both within [0, W] and x1 > x0, so the cropped keogram has
\* at least one pixel column.
C1_CropNonEmpty ==
    Cropped => /\ 0 <= x0 /\ x0 <= W
               /\ 0 <= x1 /\ x1 <= W
               /\ x1 > x0

\* C2: for 0 <= first < last <= 24 the crop has width x1 - x0 >= 1 with
\* x0 = floor(W * first / 24), and the window (0, 24) gives x0 = 0, x1 = W.
C2_CropFloor ==
    (Cropped /\ 0 <= first_h /\ first_h < last_h /\ last_h <= HoursPerDay)
        => /\ x1 - x0 >= 1
           /\ x0 = (W * first_h) \div HoursPerDay
           /\ (first_h = 0 /\ last_h = HoursPerDay) => (x0 = 0 /\ x1 = W)

\* ---------------------------------------------------------------------------
\* Properties of the time window (the three overlay scripts).
\* ---------------------------------------------------------------------------
\* start <= h < end for the stamp t, written out on ticks
HourInside(t, s, e) == s * SecondsPerHour * TicksPerSecond <= t
                       /\ t < e * SecondsPerHour * TicksPerSecond

\* a windowed frame holds exactly the in-window rows of the frame it was cut
\* from, unchanged, and the bucket of every valid in-window sample of the file
FrameWindowExact(win, frame, samples, width, s, e) ==
    /\ \A b \in DOMAIN win : HourInside(b, s, e) /\ b \in DOMAIN frame /\ win[b] = frame[b]
    /\ \A b \in DOMAIN frame : HourInside(b, s, e) => b \in DOMAIN win
    /\ \A i \in DOMAIN samples :
          (samples[i].v # NaN /\ HourInside(samples[i].t, s, e))
              => \E b \in DOMAIN win : b <= samples[i].t /\ samples[i].t < b + width
    /\ \A i \in DOMAIN samples :
          ~HourInside(samples[i].t, s, e)
              => ~\E b \in DOMAIN win : b <= samples[i].t /\ samples[i].t < b + width

\* overlay.py keeps raw GOES samples: the retained ones are the in-window
\* samples of the file, in file order
RawWindowExact(kept, samples, s, e) ==
    LET inside == {i \in DOMAIN samples : HourInside(samples[i].t, s, e)}
    IN  /\ \A k \in DOMAIN kept : HourInside(kept[k].t, s, e)
        /\ Len(kept) = Cardinality(inside)
        /\ \A i \in inside :
              \E k \in DOMAIN kept :
                 /\ kept[k].v = samples[i].v
                 /\ kept[k].t <= samples[i].t
                 /\ samples[i].t < kept[k].t + TicksPerSecond

GhLoaded  == script = "overlay" /\ pc \in {"pd_dscovr", "pd_plot", "done"}
DfLoaded  == script = "overlay" /\ pc \in {"pd_plot", "done"}
GoLoaded  == script \in PartialScripts /\ pc \in {"pk_ace", "pk_plot"}
AceLoaded == script \in PartialScripts /\ pc = "pk_plot" /\ ace_h

\* C3: in every overlay script the windowed series is exactly the samples with
\* start_hour <= h < end_hour: nothing outside the half-open window is kept
\* and nothing inside it is dropped.
C3_WindowExact ==
    /\ GhLoaded => RawWindowExact(gh, goes_file.samples, first_h, last_h)
    /\ DfLoaded => FrameWindowExact(df, open_dscovr_series(dscovr_file.samples),
                                    dscovr_file.samples, 60 * TicksPerSecond,
                                    first_h, last_h)
    /\ GoLoaded => FrameWindowExact(win_go, go_df, goes_file.samples,
                                    10 * TicksPerSecond, start_hour, end_hour)
    /\ AceLoaded => FrameWindowExact(win_ace, ace_df, dscovr_file.samples,
                                     10 * TicksPerSecond, start_hour, end_hour)

\* a kept sample one half second before the end edge, a dropped one on it
C3_Witness ==
    /\ GhLoaded /\ first_h = 8 /\ last_h = 12
    /\ Len(goes_file.samples) = 2 /\ Len(gh) = 1
    /\ goes_file.samples[1].t = 12 * TicksPerHour - TicksPerSecond \div 2
    /\ goes_file.samples[2].t = 12 * TicksPerHour

\* C4: for the window [8, 12) the GOES series of the partial-overlay scripts
\* is made of 10-second buckets aligned to midnight, each the mean of the raw
\* samples stamped inside it, every bucket has 8 <= hour < 12, and a sample
\* stamped exactly 12:00:00 is in no retained bucket: nothing is at hour 12.
C4_Buckets ==
    (GoLoaded /\ start_hour = 8 /\ end_hour = 12) =>
        /\ \A b \in DOMAIN win_go :
              LET members == {i \in DOMAIN goes_file.samples :
                                 /\ goes_file.samples[i].v # NaN
                                 /\ b <= goes_file.samples[i].t
                                 /\ goes_file.samples[i].t < b + 10 * TicksPerSecond}
              IN  /\ b % (10 * TicksPerSecond) = 0
                  /\ 8 * TicksPerHour <= b /\ b < 12 * TicksPerHour
                  /\ win_go[b].n = Cardinality(members)
                  /\ win_go[b].sum = SumOver([i \in members |-> goes_file.samples[i].v],
                                             members)
        /\ 12 * TicksPerHour \notin DOMAIN win_go
        /\ \A i \in DOMAIN goes_file.samples :
              goes_file.samples[i].t = 12 * TicksPerHour
                  => ~\E b \in DOMAIN win_go :
                         b <= goes_file.samples[i].t
                         /\ goes_file.samples[i].t < b + 10 * TicksPerSecond

\* a file covering 08:00:00 .. 12:00:00: 1441 buckets, 1440 of them retained
C4_Witness ==
    /\ GoLoaded /\ start_hour = 8 /\ end_hour = 12
    /\ goes_file.samples # << >>
    /\ goes_file.samples[1].t = 8 * TicksPerHour
    /\ goes_file.samples[Len(goes_file.samples)].t = 12 * TicksPerHour
    /\ Cardinality(DOMAIN go_df) = 1441 /\ Cardinality(DOMAIN win_go) = 1440
    /\ win_go[8 * TicksPerHour].n = 1

\* ---------------------------------------------------------------------------
\* Stitching
\* ---------------------------------------------------------------------------
SameHeight(imgs) == Cardinality(HeightsOf(imgs)) = 1
WidthsBefore(imgs, i) == SumOver([k \in 1..Len(imgs) |-> Width(imgs[k])], 1..(i - 1))
\* `out` is as high as the slices, as wide as their widths together, and
\* slice i fills the columns after the widths of the slices before it
SideBySide(out, imgs) ==
    /\ out.h = imgs[1].h
    /\ Width(out) = SumWidths(imgs)
    /\ \A i \in 1..Len(imgs) : \A x \in 1..Width(imgs[i]) :
        out.cols[WidthsBefore(imgs, i) + x] = imgs[i].cols[x]
StitchedSegments ==
    script = "download_partial_keograms" /\ ~MoreTargets /\ got # << >>
    /\ pc \in {"done", "exited"}

\* C5: stitching N >= 1 slices of one height H gives an image of height H whose
\* width is the sum of the slice widths, slice i occupying the column block
\* that starts at the sum of the widths before it; so for concat_horizontal
\* and for the hstack of combine_partial_keos.
C5_SameHeightStitch ==
    /\ (StitchedSegments /\ SameHeight(SegmentsOf(got)))
        => /\ pc = "done"
           /\ StitchedName \in disk.stitched
           /\ SideBySide(canvas, SegmentsOf(got))
    /\ \A k \in 1..Len(combined) :
        SameHeight(SlicesOf(combined[k].files))
            => SideBySide(combined[k].img, SlicesOf(combined[k].files))
    /\ (script = "combine_partial_keos" /\ pc = "raised")
        => ~SameHeight(SlicesOf(GroupAt.files))
C5_Witness ==
    /\ script = "download_partial_keograms" /\ pc = "done"
    /\ Len(got) = 3 /\ SameHeight(SegmentsOf(got))
    /\ Width(Segment(got[1])) # Width(Segment(got[2]))
    /\ Width(canvas) = SumWidths(SegmentsOf(got))

HoursAscending(hours) == \A i \in 1..(Len(hours) - 1) : hours[i] < hours[i + 1]
\* C6: both stitching scripts place a day's slices left to right in strictly
\* ascending hour order, whatever the order of the listing or the index page.
C6_StrictHourOrder ==
    /\ script = "download_partial_keograms" => HoursAscending(got)
    /\ \A k \in 1..Len(combined) :
        HoursAscending([i \in 1..Len(combined[k].files) |-> combined[k].files[i].hour])

\* ---------------------------------------------------------------------------
\* Monthly stacking
\* ---------------------------------------------------------------------------
HeightsBefore(fps, i) == SumOver([k \in 1..Len(fps) |-> fps[k].h], 1..(i - 1))
\* the saved image s against the files it was made from
StackedRight(s) ==
    LET fps == s.fps
        max_width == SetMax({AspectRatio * fps[i].h : i \in 1..Len(fps)})
    IN  /\ Range(fps) = {f \in folder : f.kind = "dated" /\ f.ym = s.ym}
        /\ \A i, j \in 1..Len(fps) : i < j => StackId(fps[i]) < StackId(fps[j])
        /\ s.img.w = max_width
        /\ s.img.h = HeightsBefore(fps, Len(fps) + 1)
        /\ \A i \in 1..Len(fps) : \A y \in 0..(fps[i].h - 1) :
           \A x \in (0..(max_width - 1)) \ LineColumns(max_width) :
             PixelAt(s.img, x, HeightsBefore(fps, i) + y) =
                IF x < AspectRatio * fps[i].h THEN <<StackId(fps[i]), x, y>> ELSE Black

\* C7: with every image of a month resized to width 10 x its own height, the
\* month's canvas is as wide as the widest resized image and as high as the
\* heights together; the images lie top to bottom in ascending file-name
\* order, image k starting at the sum of the heights before it, left-aligned
\* and padded with black on the right.
C7_MonthStack == \A k \in 1..Len(stacks) : StackedRight(stacks[k])
C7_Witness ==
    \E k \in 1..Len(stacks) :
        /\ Len(stacks[k].fps) = 3
        /\ stacks[k].fps[1].h > stacks[k].fps[2].h
        /\ stacks[k].fps[3].h > stacks[k].fps[2].h
        /\ PixelAt(stacks[k].img, stacks[k].img.w - 1, stacks[k].fps[1].h) = Black

\* ---------------------------------------------------------------------------
\* RGB compositing
\* ---------------------------------------------------------------------------
Terminal == pc \in {"done", "returned", "raised"}
Selected(wave) == triplet_paths[CHOOSE i \in 1..Len(triplet_paths) : triplet_paths[i].wave = wave].img
Zeros(n) == [i \in 1..n |-> 0]

\* C8: the red channel of the composite is the normalized 0630 image, green
\* the normalized 0558 image and blue the normalized 0428 image, each and no
\* other; a channel is all zero only if its own image normalizes to zero.
C8_ChannelPerWave ==
    \A k \in 1..Len(written) :
        /\ written[k].R = Normalized255(Selected("0630"))
        /\ written[k].G = Normalized255(Selected("0558"))
        /\ written[k].B = Normalized255(Selected("0428"))
        /\ written[k].R = Zeros(Len(written[k].R))
            => SetMax(Range(Selected("0630").px)) <= SetMin(Range(Selected("0630").px))
        /\ written[k].G = Zeros(Len(written[k].G))
            => SetMax(Range(Selected("0558").px)) <= SetMin(Range(Selected("0558").px))
        /\ written[k].B = Zeros(Len(written[k].B))
            => SetMax(Range(Selected("0428").px)) <= SetMin(Range(Selected("0428").px))
C8_Witness ==
    /\ script = "composite_png" /\ pc = "done" /\ Len(written) = 1
    /\ written[1].R # written[1].G /\ written[1].G # written[1].B
    /\ written[1].R # written[1].B
    /\ written[1].R # Zeros(Len(written[1].R))
    /\ written[1].B = Zeros(Len(written[1].B))
    /\ \E i \in 1..Len(written[1].G) : written[1].G[i] \notin {0, 255}

AllWavesPresent == \A w \in {"0630", "0558", "0428"} : FramesOf(base_dir, w) # {}
FirstCenter == SetMin({f.t : f \in FramesOf(base_dir, "0558")})
\* the least |dt| of a wavelength's frames to the reference frame
MinDist(wave) == SetMin({Abs(f.t - FirstCenter) : f \in FramesOf(base_dir, wave)})
NoBadDate == ~\E f \in base_dir : f.kind = "baddate" /\ f.wave \in {"0630", "0558", "0428"}

\* C9: no composite is written when the 0428 or 0630 frame nearest to the
\* reference 0558 frame is more than 20 s away; a nearest frame exactly 20 s
\* away is accepted, and the frame taken is one at the least |dt|.
C9_Tolerance ==
    (script = "composite_png" /\ AllWavesPresent) =>
        /\ (MinDist("0428") > 20 \/ MinDist("0630") > 20) => written = << >>
        /\ (pc = "returned" /\ NoBadDate) => (MinDist("0428") > 20 \/ MinDist("0630") > 20)
        /\ \A i \in 2..Len(triplet_paths) :
            /\ Abs(triplet_paths[i].t - FirstCenter) = MinDist(triplet_paths[i].wave)
            /\ Abs(triplet_paths[i].t - FirstCenter) <= 20
C9_Witness ==
    /\ script = "composite_png" /\ pc = "returned" /\ AllWavesPresent
    /\ MinDist("0428") = 20 /\ Len(triplet_paths) = 2
    /\ MinDist("0630") = 21 /\ written = << >>

ShapesDiffer ==
    \E i, j \in 1..Len(triplet_paths) : triplet_paths[i].img.shape # triplet_paths[j].img.shape
\* C10: nothing is written when one of the three wavelengths has no frame or
\* when the three selected images differ in shape; the one write is the save
\* of the complete image, all three channels filled at the common shape.
C10_AllOrNothing ==
    script = "composite_png" =>
        /\ ~AllWavesPresent => written = << >>
        /\ ShapesDiffer => written = << >>
        /\ Len(written) <= 1
        /\ written # << >> =>
            /\ pc = "done" /\ Len(triplet_paths) = 3
            /\ \A c \in {written[1].R, written[1].G, written[1].B} :
                Len(c) = written[1].shape[1] * written[1].shape[2]
C10_Witness ==
    /\ script = "composite_png" /\ pc = "raised" /\ Len(triplet_paths) = 3
    /\ triplet_paths[1].img.shape = triplet_paths[2].img.shape
    /\ triplet_paths[3].img.shape # triplet_paths[1].img.shape
    /\ written = << >>

\* ---------------------------------------------------------------------------
\* Properties of the overlay scripts as whole runs
\* ---------------------------------------------------------------------------
OverlayScripts == {"overlay"} \cup PartialScripts
Usable(f) == f.found /\ f.ok
Unreadable(f) == f.found /\ ~f.ok
\* exactly one of the two series of the current date cannot be had
OneSeriesLost == Usable(goes_file) # Usable(dscovr_file)
\* overlay.py has a keogram and a window for the current date
KeoUsable ==
    /\ keo_paths # << >>
    /\ IF mode = "partial" THEN hours_from_partial_name(keo_paths[1]) # << >>
       ELSE scrape_time_bounds(page) # << >>
\* the keogram files the per-keogram loop has dealt with and whose name matches
MatchedSoFar ==
    {i \in 1..(Len(keo_paths) - Len(todo)) : PatternMatches(keo_paths[i])}

\* C11: when exactly one of the two data files of a date is not found or
\* cannot be read, the image of that date is still saved: process_date ends
\* with the save, and the per-keogram loop has saved one image for every
\* matching keogram it has passed and never stops on an exception.
C11_ImageDespiteLostSeries ==
    OneSeriesLost =>
        /\ (script = "overlay" /\ KeoUsable /\ pc \in {"returned", "done", "raised"})
              => pc = "done"
        /\ script \in PartialScripts =>
              /\ pc # "raised"
              /\ pc \in {"loop", "done"} => Len(saved) = Cardinality(MatchedSoFar)

OmissionDiagnostics ==
    {"MISS data", "MISS GOES read", "MISS DSCOVR read", "No GOES file", "Failed ACE"}
\* C12: every saved image that lacks one of its two curves comes with a
\* diagnostic about a series in the output printed so far.
C12_OmissionReported ==
    script \in OverlayScripts =>
        \A k \in 1..Len(drawn) :
            (~drawn[k].hp \/ ~drawn[k].bz) =>
                \E i \in 1..Len(log) : log[i] \in OmissionDiagnostics

\* C13: with both data files readable and a usable keogram, no overlay
\* script stops on an exception, whatever the files hold: no samples at all,
\* or none inside the window.
C13_EmptySeriesNoRaise ==
    (/\ script \in OverlayScripts
     /\ Usable(goes_file) /\ Usable(dscovr_file)
     /\ script = "overlay" => KeoUsable)
        => pc # "raised"

\* C14: no temporary .nc file made while reading a gzipped solar-wind file
\* is on disk once the script is done with that file.
C14_NoTempFileLeft == script \in OverlayScripts => tmp_files = 0

\* C15: a keogram whose name carries no hour window is skipped with a
\* message and the loop goes on; the run does not stop on it.
C15_BadNameSkipped ==
    /\ (script = "overlay" /\ mode = "partial" /\ keo_paths # << >>
        /\ hours_from_partial_name(keo_paths[1]) = << >>)
          => pc # "raised"
    /\ (script \in PartialScripts /\ pc \in {"loop", "done"})
          => \A i \in 1..(Len(keo_paths) - Len(todo)) :
                ~PatternMatches(keo_paths[i]) =>
                    \E j \in 1..Len(log) : log[j] = "Skipping unrecognized"

\* C16: a data file that is there but cannot be opened, or that lacks an
\* expected variable, costs the overlay of its item only: the run goes on
\* with the next date or keogram and does not stop on the exception.
C16_ParseFailureLocal ==
    (/\ script \in OverlayScripts
     /\ Unreadable(goes_file) \/ Unreadable(dscovr_file)
     /\ ~(Usable(goes_file) /\ goes_file.samples = << >>)
     /\ ~(Usable(dscovr_file) /\ dscovr_file.samples = << >>)
     /\ script = "overlay" => KeoUsable)
        => pc # "raised"

\* ---------------------------------------------------------------------------
\* Properties of the download scripts
\* ---------------------------------------------------------------------------
DownloadScripts == {"download_goes", "download_keograms", "download_partial_keograms"}
\* the run is over, and the status the process ends with
Over == pc \in {"exited", "returned", "done", "raised"}
Status ==
    IF script = "download_goes" THEN dg_exit
    ELSE IF script = "download_keograms" THEN dk_exit
    ELSE IF pc = "returned" THEN 0 ELSE exit_code
\* something the run needed was wrong: the dates, an index page, a file
Trouble ==
    \/ /\ script = "download_goes"
       /\ \/ dg_args # "ok"
          \/ \E m \in 1..Len(dg_months) : dg_months[m].index # "ok"
          \/ Discover(dg_months, 1) = << >>
          \/ \E k \in 1..(dg_i - 1) :
                dg_months[discovered[k][1]].days[discovered[k][2]].fetch = "fail"
    \/ /\ script = "download_keograms"
       /\ \/ dk_args # "ok"
          \/ \E k \in 1..(dk_i - 1) :
                /\ ~(skip_existing /\ dk_days[to_get[k]].exists)
                /\ dk_days[to_get[k]].remote # "ok"
    \/ /\ script = "download_partial_keograms"
       /\ \/ ~date_ok
          \/ scrape_hours(hrefs) = << >>
          \/ \E k \in 1..(dl_i - 1) : remote[targets[k]].fetch # "ok"
          \/ pc = "raised"

\* C17: a download script that met an invalid date range, a missing remote
\* resource (index page, file of a day, 404) or a failed download ends with
\* a non-zero status; status zero means none of these happened.
C17_ExitCodes ==
    (script \in DownloadScripts /\ Over /\ Trouble) => Status # 0

\* the prompt answers name no window inside the scraped hours
BadWindow ==
    /\ avail # << >>
    /\ \/ PromptS.kind = "text" \/ PromptE.kind = "text"
       \/ PromptE.n - 1 < PromptS.n
       \/ PromptS.n \notin Range(avail) \/ PromptE.n - 1 \notin Range(avail)

\* C18: a run that exits on invalid input (mode, dates, hour window) exits
\* non-zero having issued no network request and created no file or directory.
C18_FailFast ==
    /\ (script = "overlay" /\ pc = "exited")
          => ov_exit # 0 /\ ~dirs_made /\ saved = << >> /\ tmp_files = 0
    /\ (script = "download_partial_keograms" /\ pc = "exited"
        /\ (~date_ok \/ (BadWindow /\ got = << >> /\ exit_code = 3)))
          => exit_code # 0 /\ requests_sent = 0 /\ disk = NoDisk
    /\ (script = "download_goes" /\ pc = "exited")
          => dg_exit # 0 /\ requests_sent = 0 /\ dg_disk = {}
    /\ (script = "download_keograms" /\ pc = "exited")
          => dk_exit # 0 /\ requests_sent = 0
             /\ \A i \in 1..Len(dk_disk) : dk_disk[i] \in {"none", "old"}

\* C19: no fetch of download_keograms or download_partial_keograms leaves an
\* empty, partial or otherwise wrong file at the destination of its unit.
C19_NoJunkFile ==
    /\ script = "download_keograms" =>
          \A i \in 1..Len(dk_disk) : dk_disk[i] # "junk"
    /\ script = "download_partial_keograms" =>
          \A f \in disk.segments : f.whole

\* the files at the destinations before download_keograms starts
DiskBefore == [i \in 1..Len(dk_days) |-> IF dk_days[i].exists THEN "old" ELSE "none"]
\* the days the loop of download_keograms has passed
DaysPassed == {to_get[k] : k \in 1..(dk_i - 1)}

\* C20: under --dry-run no download script calls its fetch function or
\* touches a file under the output root, and download_keograms with
\* --skip-existing fetches exactly the days passed whose file was not there
\* and leaves every file that was there as it was.
C20_DryRunAndSkip ==
    /\ (script = "download_goes" /\ dg_dry_run) => fetch_calls = 0 /\ dg_disk = {}
    /\ (script = "download_keograms" /\ dk_dry_run) =>
          fetch_calls = 0 /\ dk_disk = DiskBefore
    /\ (script = "download_partial_keograms" /\ dry_run) =>
          fetch_calls = 0 /\ disk = NoDisk /\ canvas = NoImage
    /\ (script = "download_keograms" /\ skip_existing) =>
          /\ fetch_calls = Cardinality({i \in DaysPassed : ~dk_days[i].exists})
          /\ \A i \in 1..Len(dk_days) : dk_days[i].exists => dk_disk[i] = "old"
C20_Witness ==
    /\ script = "download_goes" /\ dg_dry_run /\ pc = "returned"
    /\ Len(discovered) = 2 /\ fetch_calls = 0 /\ requests_sent = 1
    /\ \E k \in 1..Len(discovered) :
          dg_months[discovered[k][1]].days[discovered[k][2]].fetch = "fail"

\* ---------------------------------------------------------------------------
\* Properties of hour windows, image geometry and file names
\* ---------------------------------------------------------------------------
\* the overlay scripts and the stitching download, each from its own start
SpecWindows ==
    (InitOverlay \/ InitPartial \/ InitDownload)
        /\ [][NextOverlay \/ NextPartial \/ NextDownload]_vars

\* process_date holds a window: after the name or the day page gave one
WindowHeld == pc \in {"pd_find_data", "pd_goes", "pd_dscovr", "pd_plot"}
\* the loop body of a per-keogram script is at work on a matched file
BodyAtWork == pc \in {"pk_goes", "pk_ace", "pk_plot"}

\* C21: every hour window in use ends after it starts: the window
\* process_date got from the day page or from the file name, the window a
\* per-keogram script took for the file at hand, and the window written into
\* the name of a stitched image.
C21_WindowOrdered ==
    /\ (script = "overlay" /\ WindowHeld) => last_h > first_h
    /\ (script \in PartialScripts /\ BodyAtWork) => end_hour > start_hour
    /\ script = "download_partial_keograms" =>
          \A n \in disk.stitched : IntOf(n[2]) > IntOf(n[1])

\* the downloaded segments differ in height and the stitching step was reached
StitchTried ==
    /\ script = "download_partial_keograms"
    /\ got # << >>
    /\ pc = "done" \/ (pc = "exited" /\ exit_code = 3)
MixedHeights(imgs) == Cardinality(HeightsOf(imgs)) > 1
\* floor(w * hmin / h) for a slice taller than hmin, its own width otherwise
FloorWidth(im, hmin) == IF im.h = hmin THEN Width(im) ELSE (Width(im) * hmin) \div im.h

\* C22: when the slices handed to concat_horizontal differ in height, the
\* stitched image is made: it is as high as the lowest slice and as wide as
\* the sum of the widths floor(w * hmin / h) of the taller slices and the own
\* widths of the lowest ones, and every such width is at least 1.
C22_ResizeToLowest ==
    (StitchTried /\ MixedHeights(SegmentsOf(got))) =>
        LET imgs == SegmentsOf(got)
            hmin == SetMin(HeightsOf(imgs))
        IN  /\ \A i \in 1..Len(imgs) : FloorWidth(imgs[i], hmin) >= 1
            /\ pc = "done"
            /\ canvas.h = hmin
            /\ Width(canvas) =
                  SumOver([i \in 1..Len(imgs) |-> FloorWidth(imgs[i], hmin)], 1..Len(imgs))

HeightWarning == \E i \in 1..Len(log) : log[i] = "Warning: Image heights differ"

\* C23: a date whose hourly slices differ in height costs combine_partial_keos
\* a warning only: the run does not stop there, and once it is over every
\* date of the folder has its stitched image.
C23_WarnAndProceed ==
    (script = "combine_partial_keos" /\ HeightWarning) =>
        /\ pc # "raised"
        /\ pc = "done" => Len(combined) = Len(keogram_groups)

Within(pts, lim) == \A q \in pts : RatLE(lim.lo, q) /\ RatLE(q, lim.hi)

\* C24: in every saved overlay the vertical limits of the Hp axis and of the
\* Bz axis contain every value plotted on that axis.
C24_AxisHoldsCurve ==
    script \in OverlayScripts =>
        \A k \in 1..Len(drawn) :
            /\ Within(drawn[k].hp_pts, drawn[k].hp_lim)
            /\ Within(drawn[k].bz_pts, drawn[k].bz_lim)

\* the column of `hour` in an image w pixels wide
HourColumn(w, hour) == (w * hour) \div HoursPerDay

\* C25: in every monthly stack the white reference lines run over the whole
\* canvas height at the columns floor(canvas width * hour / 24) of 06:00 and
\* 12:00, and for every stacked day that column is the column of the same
\* hour in the day's own resized image.
C25_LinesMarkHours ==
    \A k \in 1..Len(stacks) : \A r \in 1..Len(RefHours) :
        LET s == stacks[k]
            x == HourColumn(s.img.w, RefHours[r])
        IN  /\ x < s.img.w => \A y \in 0..(s.img.h - 1) : PixelAt(s.img, x, y) = White
            /\ \A i \in 1..Len(s.fps) :
                  x = HourColumn(AspectRatio * s.fps[i].h, RefHours[r])

\* the hour a digit string of one or two digits spells
HourWritten(ds) == IF Len(ds) = 1 THEN ds[1] ELSE 10 * ds[1] + ds[2]
\* overlay.py in partial mode holds the window of a name that has one
NameWindowHeld ==
    /\ script = "overlay" /\ mode = "partial" /\ WindowHeld
    /\ keo_paths # << >> /\ NameMatches(keo_paths[1])

FileAtWork == keo_paths[Len(keo_paths) - Len(todo)]
NameWindow(p) == <<HourWritten(p.win[1]), HourWritten(p.win[2])>>

\* C27: the hour extent an overlay script gives the keogram is the window
\* the image covers: the hours of its file name, or the hours the full-day
\* image was cropped to; the curves are cut to the same window; and the
\* keogram files of one run are saved to paths of their own.
C27_ExtentIsImageWindow ==
    /\ (script \in PartialScripts /\ BodyAtWork) =>
          <<start_hour, end_hour>> = NameWindow(FileAtWork)
    /\ (script \in PartialScripts /\ pc = "pk_plot") =>
          win_go = FilterFrame(go_df, NameWindow(FileAtWork)[1], NameWindow(FileAtWork)[2])
    /\ (script = "overlay" /\ WindowHeld) =>
          <<first_h, last_h>> = IF mode = "partial" THEN NameWindow(keo_paths[1])
                                ELSE scrape_time_bounds(page)
    /\ script \in PartialScripts =>
          \A i, j \in 1..Len(saved) : i < j => saved[i] # saved[j]

\* ---------------------------------------------------------------------------
\* overlay.py in partial mode, run on the folder download_partial_keograms.py
\* has written to (DEFAULT_OUT and PARTIAL_KEO_DIR are the same folder)
\* ---------------------------------------------------------------------------
\* the names of the month folder that *<date>*keogram*png matches: stitched
\* images and hour segments alike
GlobMatches ==
    {[W |-> Width(canvas), win |-> n] : n \in disk.stitched}
    \cup {[W |-> remote[f.hour].w, win |-> << >>] : f \in disk.segments}

\* find_file: next(sub.glob(pattern)), the first name the folder yields
PD_FindPartial ==
    /\ script = "download_partial_keograms" /\ pc = "done"
    /\ \E f \in GlobMatches : keo_paths' = <<f>>
    /\ script' = "overlay" /\ mode' = "partial"
    /\ pc' = "pd_find_keo"
    /\ UNCHANGED <<log, saved, page, goes_file, dscovr_file, overlayVars, partialVars,
                   runVars, nonOverlay>>

SpecRoundTrip ==
    InitDownload
        /\ [][NextDownload \/ PD_FindPartial \/ PD_PartialWindow \/ PD_PartialBadName
              \/ PD_MissData]_vars

\* overlay.py runs on what the download of the window hs..he has left
AfterStitch == script = "overlay" /\ StitchedName \in disk.stitched

\* C28: the window written into the stitched name is read back unchanged:
\* for start s and end e typed at the prompt the name carries s and e,
\* overlay.py finds that name and takes (s, e) from it without raising, and
\* the stitched hours begin at s and end with e - 1.
C28_WindowReadBack ==
    AfterStitch =>
        /\ StitchedName = <<Format02(PromptS.n), Format02(PromptE.n)>>
        /\ pc # "raised"
        /\ WindowHeld => <<first_h, last_h>> = <<PromptS.n, PromptE.n>>
        /\ got[1] = PromptS.n /\ got[Len(got)] = PromptE.n - 1

\* C29: the stitched image named with the window hs .. he + 1 holds exactly
\* one slice for every hour hs, hs + 1, ..., he, in that order: no hour of
\* the named window is absent from it.
C29_EveryHourStitched ==
    (script = "download_partial_keograms" /\ pc = "done"
     /\ StitchedName \in disk.stitched)
        => got = [i \in 1..(he - hs + 1) |-> hs + i - 1]

\* the segment file of a downloaded hour
SegmentFile(hh) == [hour |-> hh, whole |-> TRUE]
SegmentsOnDisk == \A i \in 1..Len(got) : SegmentFile(got[i]) \in disk.segments
SegmentsGone == \A i \in 1..Len(got) : SegmentFile(got[i]) \notin disk.segments

\* C30: a downloaded hour segment is off the disk only after the stitching
\* has succeeded in a run without --keep-segments, and then the stitched
\* image is on disk; a run whose stitching fails ends with exit code 3 and
\* every downloaded segment still there; the stitched image of a finished
\* run is never removed.
C30_CleanupAfterStitch ==
    script = "download_partial_keograms" =>
        /\ ~SegmentsOnDisk =>
              /\ pc = "done" /\ exit_code = 0 /\ ~keep_segments
              /\ StitchedName \in disk.stitched
        /\ (pc = "exited" /\ got # << >>) => exit_code = 3 /\ SegmentsOnDisk
        /\ pc = "done" => StitchedName \in disk.stitched
C30_Witness ==
    /\ script = "download_partial_keograms" /\ pc = "done"
    /\ ~keep_segments /\ Len(got) = 2 /\ SegmentsGone
    /\ StitchedName \in disk.stitched
    /\ \E f \in disk.segments : ~f.whole
====
